---- MODULE Spec2Model ----
(***************************************************************************)
(* A model of the logsy blockchain node: the ledger (src/blockchain.py),   *)
(* the transaction validator and pool (src/transaction.py), the signing    *)
(* capability (src/wallet.py) and the node's request handlers and          *)
(* background mining thread (src/node.py).                                 *)
(*                                                                         *)
(* SHA-256 is modelled by a deterministic digest over HashLen hex digits;  *)
(* the derived transaction id, a SHA-256 of the canonical encoding of      *)
(* (sender, recipient, amount, timestamp), is modelled by that tuple.      *)
(***************************************************************************)
EXTENDS Integers, Sequences, FiniteSets, TLC

VARIABLES
    chain,                 \* Blockchain.chain: sequence of blocks
    mempool,               \* Blockchain.mempool
    difficulty,            \* Blockchain.difficulty
    mining_reward,         \* Blockchain.mining_reward
    blockchain_file,       \* contents of data/blockchain.json
    pending_transactions,  \* TransactionPool.pending_transactions
    is_mining,             \* BlockchainNode.is_mining
    mining_address,        \* BlockchainNode.mining_address
    threads,               \* background mining threads: position and locals
    peers,                 \* BlockchainNode.peers
    p2p,                   \* the P2PNetwork instance (src/peer.py)
    now,                   \* the value time.time() returns
    ret                    \* what the last call returned, or the last thread step

ledger == <<chain, mempool, difficulty, mining_reward, blockchain_file>>
mining == <<is_mining, mining_address, threads>>
network == <<peers, p2p>>

vars == <<chain, mempool, difficulty, mining_reward, blockchain_file,
          pending_transactions, is_mining, mining_address, threads,
          peers, p2p, now, ret>>

----------------------------------------------------------------------------
(* Bounds of the model *)

HashLen == 3
Difficulty == 1
MaxChain == 3
MaxTime == 1
MaxPool == 2
MaxMempool == 1
MaxThreads == 2
MaxBacklog == 12
MaxClock == 301
MaxSent == 2

(* Program constants *)

MiningReward == 10
PendingLimit == 10
MiningBatch == 10
MaxAttempts == 3
DeadAfter == 300

Users == {"A", "B"}
Keys == {"kA", "kB"}
PeerMiner == "P"
None == "None"

----------------------------------------------------------------------------
(* Sequences as Python lists *)

\* lst[:n]
Take(s, n) == SubSeq(s, 1, IF n < Len(s) THEN n ELSE Len(s))

\* lst[n:] for n >= 0
Drop(s, n) == SubSeq(s, n + 1, Len(s))

\* lst[n:] for any integer n: a negative n counts from the end
PySliceFrom(s, n) ==
    IF n >= 0 THEN Drop(s, n)
    ELSE IF -n >= Len(s) THEN s ELSE Drop(s, Len(s) + n)

RECURSIVE Pow16(_)
Pow16(n) == IF n <= 0 THEN 1 ELSE 16 * Pow16(n - 1)

HashSpace == Pow16(HashLen)

----------------------------------------------------------------------------
(* Transactions: src/transaction.py, src/wallet.py *)

Has(tx, f) == f \in DOMAIN tx

\* Transaction.calculate_transaction_id: the digest of the canonical
\* encoding of (sender, recipient, amount, timestamp)
calculate_transaction_id(tx) ==
    <<tx.sender, tx.recipient, tx.amount, tx.timestamp>>

\* tx.get("transaction_id")
get_transaction_id(tx) ==
    IF Has(tx, "transaction_id") THEN tx.transaction_id ELSE <<None>>

\* tx.get('transaction_id', '')
get_transaction_id_or_empty(tx) ==
    IF Has(tx, "transaction_id") THEN tx.transaction_id ELSE <<"">>

\* A signature value is either a literal string or an ECDSA signature made
\* with a private key over the digest of a canonical encoding.
Lit(s) == <<"lit", s>>

\* Wallet.sign_transaction
sign_transaction(key, tx) == <<"ecdsa", key, calculate_transaction_id(tx)>>

\* wallet.verify_transaction_signature: any failure to decode is False
verify_transaction_signature(tx, public_key_hex) ==
    /\ tx.signature[1] = "ecdsa"
    /\ tx.signature[2] = public_key_hex
    /\ tx.signature[3] = calculate_transaction_id(tx)

----------------------------------------------------------------------------
(* The digest standing for SHA-256 of the JSON encoding *)

StrCode(s) ==
    CASE s = "A" -> 1 [] s = "B" -> 2 [] s = "P" -> 3
      [] s = "system" -> 4 [] s = "genesis" -> 5
      [] s = "mining_reward" -> 6 [] s = "genesis_signature" -> 7
      [] s = "SYSTEM" -> 8 [] s = "" -> 9
      [] s = "kA" -> 10 [] s = "kB" -> 11
      [] OTHER -> 12

IdCode(id) ==
    IF Len(id) = 4
    THEN StrCode(id[1]) + 3 * StrCode(id[2]) + 5 * (id[3] + 16) + 7 * id[4]
    ELSE 1

SigCode(sig) ==
    IF sig[1] = "lit" THEN StrCode(sig[2])
    ELSE 19 + StrCode(sig[2]) + 3 * IdCode(sig[3])

TxCode(tx) ==
    3 * StrCode(tx.sender) + 5 * StrCode(tx.recipient)
    + 7 * (tx.amount + 16) + 11 * tx.timestamp + 13 * SigCode(tx.signature)
    + (IF Has(tx, "sender_public_key") THEN 17 * StrCode(tx.sender_public_key) ELSE 0)
    + (IF Has(tx, "transaction_id") THEN 23 * IdCode(tx.transaction_id) ELSE 0)

RECURSIVE TxsCode(_)
TxsCode(txs) ==
    IF txs = <<>> THEN 5
    ELSE (31 * TxsCode(SubSeq(txs, 1, Len(txs) - 1)) + TxCode(txs[Len(txs)])) % HashSpace

\* An odd multiplier, so that the nonce sweeps the whole digest space
NonceStep == 2 * ((HashSpace * 309) \div 1000) + 1

\* the digest of a block string whose fields other than the nonce sum to payload
Digest(payload, nonce) == (payload + NonceStep * nonce) % HashSpace

\* the part of the block string before the nonce
Payload(index, timestamp, transactions, previous_hash) ==
    (7 * index + 13 * timestamp + 17 * TxsCode(transactions)
       + 29 * (previous_hash + 1)) % HashSpace

\* Block.calculate_hash
calculate_hash(index, timestamp, transactions, previous_hash, nonce) ==
    Digest(Payload(index, timestamp, transactions, previous_hash), nonce)

\* hash[:difficulty] == "0" * difficulty
LeadingZeros(hash, d) == d <= HashLen /\ hash < Pow16(HashLen - d)

----------------------------------------------------------------------------
(* Blocks: src/blockchain.py, class Block *)

\* the root value "0" of the genesis block's previous_hash, which is no digest
RootHash == -1

\* Block.__init__
Block(index, timestamp, transactions, previous_hash, nonce) ==
    [index |-> index, timestamp |-> timestamp, transactions |-> transactions,
     previous_hash |-> previous_hash, nonce |-> nonce,
     hash |-> calculate_hash(index, timestamp, transactions, previous_hash, nonce)]

\* block.calculate_hash() of a block object
BlockHash(b) ==
    calculate_hash(b.index, b.timestamp, b.transactions, b.previous_hash, b.nonce)

\* the loop of Block.mine_block: the first nonce from `from` on whose hash has
\* d leading zeros, searched a stretch of nonces at a time
RECURSIVE FirstNonce(_, _, _)
FirstNonce(payload, d, from) ==
    LET hits == {n \in from..(from + 15) : LeadingZeros(Digest(payload, n), d)}
    IN IF hits # {} THEN CHOOSE n \in hits : \A k \in hits : n <= k
       ELSE FirstNonce(payload, d, from + 16)

\* Block.mine_block
mine_block(b, d) ==
    IF LeadingZeros(b.hash, d) THEN b
    ELSE \* the fields other than the nonce do not change during the loop
         LET n == CHOOSE x \in {FirstNonce(Payload(b.index, b.timestamp, b.transactions,
                                                   b.previous_hash), d, b.nonce + 1)} : TRUE
         IN [b EXCEPT !.nonce = n,
                      !.hash = calculate_hash(b.index, b.timestamp, b.transactions,
                                              b.previous_hash, n)]

\* Block.to_dict
to_dict(b) ==
    [index |-> b.index, timestamp |-> b.timestamp, transactions |-> b.transactions,
     previous_hash |-> b.previous_hash, nonce |-> b.nonce, hash |-> b.hash]

BlockFields == {"index", "timestamp", "transactions", "previous_hash", "nonce", "hash"}

\* Block.from_dict raises KeyError on a dictionary that lacks a field
from_dict_raises(data) == ~(BlockFields \subseteq DOMAIN data)

\* Block.from_dict
from_dict(data) ==
    [Block(data.index, data.timestamp, data.transactions, data.previous_hash,
           data.nonce) EXCEPT !.hash = data.hash]

----------------------------------------------------------------------------
(* The ledger: src/blockchain.py, class Blockchain *)

\* the chain as the list of dictionaries a peer serves at /chain
ChainDicts(c) == [i \in 1..Len(c) |-> to_dict(c[i])]

\* Blockchain.create_genesis_block
create_genesis_block(d, t) ==
    mine_block(Block(0, t,
                     <<[sender |-> "genesis", recipient |-> "genesis", amount |-> 0,
                        timestamp |-> t, signature |-> Lit("genesis_signature")]>>,
                     RootHash, 0), d)

\* Blockchain.get_latest_block
get_latest_block(c) == c[Len(c)]

\* get_pending_transactions that serves the newest entries first
get_pending_transactions_newest(m, limit) ==
    [i \in 1..(IF Len(m) < limit THEN Len(m) ELSE limit) |-> m[Len(m) + 1 - i]]

\* Blockchain.get_pending_transactions
get_pending_transactions(m, limit) == Take(m, limit)

\* BalanceOfTxs that does not debit what the sender "system" issues
RECURSIVE BalanceOfTxs_no_issuer(_, _)
BalanceOfTxs_no_issuer(txs, address) ==
    IF txs = <<>> THEN 0
    ELSE BalanceOfTxs_no_issuer(SubSeq(txs, 1, Len(txs) - 1), address)
         + (IF txs[Len(txs)].recipient = address THEN txs[Len(txs)].amount ELSE 0)
         - (IF txs[Len(txs)].sender = address /\ address # "system"
            THEN txs[Len(txs)].amount ELSE 0)

\* BalanceOfTxs that never lets the running total of a block go below zero
RECURSIVE BalanceOfTxs_floor(_, _)
BalanceOfTxs_floor(txs, address) ==
    IF txs = <<>> THEN 0
    ELSE LET total == BalanceOfTxs_floor(SubSeq(txs, 1, Len(txs) - 1), address)
                      + (IF txs[Len(txs)].recipient = address
                         THEN txs[Len(txs)].amount ELSE 0)
                      - (IF txs[Len(txs)].sender = address
                         THEN txs[Len(txs)].amount ELSE 0)
         IN IF total < 0 THEN 0 ELSE total

\* the inner loop of Blockchain.get_balance over one block's transactions
RECURSIVE BalanceOfTxs(_, _)
BalanceOfTxs(txs, address) ==
    IF txs = <<>> THEN 0
    ELSE BalanceOfTxs(SubSeq(txs, 1, Len(txs) - 1), address)
         + (IF txs[Len(txs)].recipient = address THEN txs[Len(txs)].amount ELSE 0)
         - (IF txs[Len(txs)].sender = address THEN txs[Len(txs)].amount ELSE 0)

\* Blockchain.get_balance
RECURSIVE get_balance(_, _)
get_balance(c, address) ==
    IF c = <<>> THEN 0
    ELSE get_balance(SubSeq(c, 1, Len(c) - 1), address)
         + BalanceOfTxs(c[Len(c)].transactions, address)

\* the loop of Blockchain.is_chain_valid from position i (Python i - 1) on
RECURSIVE ChainValidFrom(_, _, _)
ChainValidFrom(c, d, i) ==
    IF i > Len(c) THEN TRUE
    ELSE IF c[i].hash # BlockHash(c[i]) THEN FALSE
    ELSE IF c[i].previous_hash # c[i - 1].hash THEN FALSE
    ELSE IF ~LeadingZeros(c[i].hash, d) THEN FALSE
    ELSE ChainValidFrom(c, d, i + 1)

\* is_chain_valid whose loop starts one block late
is_chain_valid_from_third(c, d) == ChainValidFrom(c, d, 3)

\* Blockchain.is_chain_valid
is_chain_valid(c, d) == ChainValidFrom(c, d, 2)

\* save_blockchain that leaves the mempool out of the snapshot
Snapshot_no_mempool(c, d, r, m) ==
    [kind |-> "json", chain |-> ChainDicts(c), difficulty |-> d,
     mining_reward |-> r, mempool |-> <<>>]

\* the snapshot Blockchain.save_blockchain writes
Snapshot(c, d, r, m) ==
    [kind |-> "json", chain |-> ChainDicts(c), difficulty |-> d,
     mining_reward |-> r, mempool |-> m]

AbsentFile == [kind |-> "absent"]
\* a file whose text json.load cannot parse (JSONDecodeError)
CorruptFile == [kind |-> "corrupt"]
\* a file whose bytes are no UTF-8 text (UnicodeDecodeError)
UndecodableFile == [kind |-> "undecodable"]
\* a file holding well-formed JSON that is no object, such as [] (TypeError
\* at data["chain"])
NotObjectFile == [kind |-> "not_object"]

\* a snapshot that makes the loading code raise KeyError: it has no "chain"
\* entry, or the entry holds a dictionary Block.from_dict rejects
SnapshotRaises(file) ==
    \/ ~Has(file, "chain")
    \/ \E i \in 1..Len(file.chain) : from_dict_raises(file.chain[i])

\* a file on which load_blockchain raises an exception it does not catch
load_blockchain_raises(file) == file.kind \in {"undecodable", "not_object"}

\* Blockchain.__init__ followed by load_blockchain: the ledger an instance
\* constructed with (d, r) holds, and the file it leaves behind
load_blockchain(file, d, r, t) ==
    IF file.kind = "json" /\ ~SnapshotRaises(file)
    THEN [chain |-> [i \in 1..Len(file.chain) |-> from_dict(file.chain[i])],
          difficulty |-> file.difficulty, mining_reward |-> file.mining_reward,
          mempool |-> file.mempool, file |-> file]
    ELSE IF file.kind = "absent"
    THEN [chain |-> <<create_genesis_block(d, t)>>, difficulty |-> d,
          mining_reward |-> r, mempool |-> <<>>,
          file |-> Snapshot(<<create_genesis_block(d, t)>>, d, r, <<>>)]
    ELSE [chain |-> <<create_genesis_block(d, t)>>, difficulty |-> d,
          mining_reward |-> r, mempool |-> <<>>, file |-> file]

\* the reward transaction Blockchain.mine_pending_transactions creates
reward_transaction(address, r, t) ==
    [sender |-> "system", recipient |-> address, amount |-> r,
     timestamp |-> t, signature |-> Lit("mining_reward")]

\* PrepareBlock with the new block linked to the first block of the chain
\* instead of the latest one
PrepareBlock_first(c, m, r, address, t) ==
    LET transactions == Append(get_pending_transactions(m, PendingLimit),
                               reward_transaction(address, r, t))
    IN [mempool |-> PySliceFrom(m, Len(transactions) - 1),
        new_block |-> Block(Len(c), t, transactions, c[1].hash, 0)]

\* Blockchain.mine_pending_transactions up to the construction of the block:
\* the batch with the reward appended, the first removal from the mempool
\* and the unmined block that references the current head
PrepareBlock(c, m, r, address, t) ==
    LET transactions == Append(get_pending_transactions(m, PendingLimit),
                               reward_transaction(address, r, t))
    IN [mempool |-> PySliceFrom(m, Len(transactions) - 1),
        new_block |-> Block(Len(c), t, transactions, get_latest_block(c).hash, 0)]

\* the second removal from the mempool, after the block is appended
RemoveMined(m, new_block) ==
    IF Len(new_block.transactions) > 0
    THEN PySliceFrom(m, Len(new_block.transactions) - 1)
    ELSE m

\* replace_chain with the length test relaxed to accept a tie
replace_chain_ties(c, d, r, m, file, new_chain, t) ==
    IF Len(new_chain) < Len(c)
    THEN [result |-> "False", chain |-> c, file |-> file]
    ELSE IF \E i \in 1..Len(new_chain) : from_dict_raises(new_chain[i])
    THEN [result |-> "raise", chain |-> c, file |-> file]
    ELSE IF load_blockchain_raises(file)
    THEN [result |-> "raise", chain |-> c, file |-> file]
    ELSE LET new_blockchain == [i \in 1..Len(new_chain) |-> from_dict(new_chain[i])]
             temp_blockchain == load_blockchain(file, d, r, t)
         IN IF is_chain_valid(new_blockchain, temp_blockchain.difficulty)
            THEN [result |-> "True", chain |-> new_blockchain,
                  file |-> Snapshot(new_blockchain, d, r, m)]
            ELSE [result |-> "False", chain |-> c, file |-> temp_blockchain.file]

\* replace_chain with self.chain assigned block by block while converting,
\* before the candidate is validated
replace_chain_early(c, d, r, m, file, new_chain, t) ==
    IF Len(new_chain) <= Len(c)
    THEN [result |-> "False", chain |-> c, file |-> file]
    ELSE IF \E i \in 1..Len(new_chain) : from_dict_raises(new_chain[i])
    THEN [result |-> "raise",
          chain |-> LET good == {k \in 0..Len(new_chain) :
                                   \A i \in 1..k : ~from_dict_raises(new_chain[i])}
                        n == CHOOSE k \in good : \A j \in good : j <= k
                    IN [i \in 1..n |-> from_dict(new_chain[i])],
          file |-> file]
    ELSE IF load_blockchain_raises(file)
    THEN [result |-> "raise",
          chain |-> [i \in 1..Len(new_chain) |-> from_dict(new_chain[i])],
          file |-> file]
    ELSE LET new_blockchain == [i \in 1..Len(new_chain) |-> from_dict(new_chain[i])]
             temp_blockchain == load_blockchain(file, d, r, t)
         IN IF is_chain_valid(new_blockchain, temp_blockchain.difficulty)
            THEN [result |-> "True", chain |-> new_blockchain,
                  file |-> Snapshot(new_blockchain, d, r, m)]
            ELSE [result |-> "False", chain |-> new_blockchain,
                  file |-> temp_blockchain.file]

\* replace_chain without the length test
replace_chain_any_length(c, d, r, m, file, new_chain, t) ==
    IF \E i \in 1..Len(new_chain) : from_dict_raises(new_chain[i])
    THEN [result |-> "raise", chain |-> c, file |-> file]
    ELSE IF load_blockchain_raises(file)
    THEN [result |-> "raise", chain |-> c, file |-> file]
    ELSE LET new_blockchain == [i \in 1..Len(new_chain) |-> from_dict(new_chain[i])]
             temp_blockchain == load_blockchain(file, d, r, t)
         IN IF is_chain_valid(new_blockchain, temp_blockchain.difficulty)
            THEN [result |-> "True", chain |-> new_blockchain,
                  file |-> Snapshot(new_blockchain, d, r, m)]
            ELSE [result |-> "False", chain |-> c, file |-> temp_blockchain.file]

\* Blockchain.replace_chain: the result ("True", "False" or "raise") and the
\* chain and file it leaves.  The temporary Blockchain built for validation
\* runs load_blockchain on the snapshot file like every other instance.
replace_chain(c, d, r, m, file, new_chain, t) ==
    IF Len(new_chain) <= Len(c)
    THEN [result |-> "False", chain |-> c, file |-> file]
    ELSE IF \E i \in 1..Len(new_chain) : from_dict_raises(new_chain[i])
    THEN [result |-> "raise", chain |-> c, file |-> file]
    ELSE IF load_blockchain_raises(file)
    THEN [result |-> "raise", chain |-> c, file |-> file]
    ELSE LET new_blockchain == [i \in 1..Len(new_chain) |-> from_dict(new_chain[i])]
             temp_blockchain == load_blockchain(file, d, r, t)
         IN IF is_chain_valid(new_blockchain, temp_blockchain.difficulty)
            THEN [result |-> "True", chain |-> new_blockchain,
                  file |-> Snapshot(new_blockchain, d, r, m)]
            ELSE [result |-> "False", chain |-> c, file |-> temp_blockchain.file]

----------------------------------------------------------------------------
(* The validator and the pool: src/transaction.py *)

RequiredFields == {"sender", "recipient", "amount", "timestamp", "signature"}

\* the signatures the validator accepts from a reserved sender
ReservedSignatures == {Lit("mining_reward"), Lit("genesis_signature")}

\* the signatures the unreachable second branch of the validator names
SecondBranchSignatures ==
    {Lit("SYSTEM"), Lit("mining_reward"), Lit("genesis_signature"), Lit("")}

\* TransactionValidator._check_sufficient_balance
check_sufficient_balance(tx, c) == get_balance(c, tx.sender) >= tx.amount

\* TransactionValidator._validate_signature
validate_signature(tx) ==
    IF ~Has(tx, "sender_public_key") THEN FALSE
    ELSE verify_transaction_signature(tx, tx.sender_public_key)

\* TransactionValidator._check_double_spending
check_double_spending(tx, c, m) ==
    LET tx_id == calculate_transaction_id(tx)
    IN \/ \E i \in 1..Len(c) : \E j \in 1..Len(c[i].transactions) :
             get_transaction_id(c[i].transactions[j]) = tx_id
       \/ \E k \in 1..Len(m) : calculate_transaction_id(m[k]) = tx_id

\* validate_transaction with the signature verified before the balance
validate_transaction_swapped(tx, c, m) ==
    IF ~(RequiredFields \subseteq DOMAIN tx)
    THEN <<FALSE, "Missing required transaction fields">>
    ELSE IF tx.amount <= 0
    THEN <<FALSE, "Transaction amount must be positive">>
    ELSE IF tx.sender = tx.recipient
    THEN <<FALSE, "Sender and recipient cannot be the same">>
    ELSE IF tx.sender \in {"system", "genesis"}
    THEN IF tx.signature \notin ReservedSignatures
         THEN <<FALSE, "Invalid system transaction signature">>
         ELSE <<TRUE, "System transaction">>
    ELSE IF ~validate_signature(tx)
    THEN <<FALSE, "Invalid transaction signature">>
    ELSE IF ~check_sufficient_balance(tx, c)
    THEN <<FALSE, "Insufficient balance">>
    ELSE IF check_double_spending(tx, c, m)
    THEN <<FALSE, "Double spending detected">>
    ELSE <<TRUE, "Transaction valid">>

\* TransactionValidator.validate_transaction
validate_transaction(tx, c, m) ==
    IF ~(RequiredFields \subseteq DOMAIN tx)
    THEN <<FALSE, "Missing required transaction fields">>
    ELSE IF tx.amount <= 0
    THEN <<FALSE, "Transaction amount must be positive">>
    ELSE IF tx.sender = tx.recipient
    THEN <<FALSE, "Sender and recipient cannot be the same">>
    ELSE IF tx.sender \in {"system", "genesis"}
    THEN IF tx.signature \notin ReservedSignatures
         THEN <<FALSE, "Invalid system transaction signature">>
         ELSE <<TRUE, "System transaction">>
    ELSE IF tx.sender = "system"
    THEN IF tx.signature \in SecondBranchSignatures
         THEN <<TRUE, "System transaction valid">>
         ELSE <<FALSE, "Invalid system transaction signature">>
    ELSE IF ~check_sufficient_balance(tx, c)
    THEN <<FALSE, "Insufficient balance">>
    ELSE IF ~validate_signature(tx)
    THEN <<FALSE, "Invalid transaction signature">>
    ELSE IF check_double_spending(tx, c, m)
    THEN <<FALSE, "Double spending detected">>
    ELSE <<TRUE, "Transaction valid">>

\* the dictionary after transaction["transaction_id"] = ... when it had none
WithTransactionId(tx) ==
    IF Has(tx, "transaction_id") THEN tx
    ELSE [f \in DOMAIN tx \cup {"transaction_id"} |->
            IF f = "transaction_id" THEN calculate_transaction_id(tx) ELSE tx[f]]

\* add_transaction with the entry appended before it is validated
add_transaction_append_first(tx, pending, c, m) ==
    LET v == validate_transaction(tx, c, m)
    IN IF ~v[1] THEN [ok |-> FALSE, message |-> v[2], pending |-> Append(pending, tx)]
       ELSE IF Len(pending) >= MaxPool
       THEN [ok |-> FALSE, message |-> "Transaction pool is full", pending |-> pending]
       ELSE [ok |-> TRUE, message |-> "Transaction added to pool",
             pending |-> Append(pending, WithTransactionId(tx))]

\* add_transaction that makes room in a full pool by dropping the oldest entry
add_transaction_evict(tx, pending, c, m) ==
    LET v == validate_transaction(tx, c, m)
    IN IF ~v[1] THEN [ok |-> FALSE, message |-> v[2], pending |-> pending]
       ELSE IF Len(pending) >= MaxPool
       THEN [ok |-> TRUE, message |-> "Transaction added to pool",
             pending |-> Append(Drop(pending, 1), WithTransactionId(tx))]
       ELSE [ok |-> TRUE, message |-> "Transaction added to pool",
             pending |-> Append(pending, WithTransactionId(tx))]

\* TransactionPool.add_transaction: the returned pair and the pool it leaves
add_transaction(tx, pending, c, m) ==
    LET v == validate_transaction(tx, c, m)
    IN IF ~v[1] THEN [ok |-> FALSE, message |-> v[2], pending |-> pending]
       ELSE IF Len(pending) >= MaxPool
       THEN [ok |-> FALSE, message |-> "Transaction pool is full", pending |-> pending]
       ELSE [ok |-> TRUE, message |-> "Transaction added to pool",
             pending |-> Append(pending, WithTransactionId(tx))]

\* TransactionPool.get_transactions_for_mining
get_transactions_for_mining(pending, max_transactions) == Take(pending, max_transactions)

\* TransactionPool.remove_transactions
remove_transactions(pending, transaction_ids) ==
    LET keep(tx) == get_transaction_id(tx) \notin transaction_ids
    IN SelectSeq(pending, keep)

\* TransactionPool.clear_invalid_transactions: the pool it leaves
clear_invalid_transactions(pending, c, m) ==
    LET keep(tx) == validate_transaction(tx, c, m)[1]
    IN SelectSeq(pending, keep)

\* Blockchain.add_transaction_to_mempool: the result and the mempool it leaves
add_transaction_to_mempool(tx, m) ==
    IF ~(RequiredFields \subseteq DOMAIN tx) THEN [ok |-> FALSE, mempool |-> m]
    ELSE IF tx.sender \in {"system", "genesis"} THEN [ok |-> FALSE, mempool |-> m]
    ELSE [ok |-> TRUE, mempool |-> Append(m, tx)]

----------------------------------------------------------------------------
(* Inputs *)

Amounts == {-5, 0, 5}

KeyOf(address) == IF address = "A" THEN "kA" ELSE "kB"

Without(tx, f) == [g \in DOMAIN tx \ {f} |-> tx[g]]

WithId(tx, id) ==
    [f \in DOMAIN tx \cup {"transaction_id"} |->
        IF f = "transaction_id" THEN id ELSE tx[f]]

\* wallet.create_signed_transaction, with the signing key and the attached
\* public key as parameters
create_signed_transaction(s, r, a, ts, signer, pk) ==
    [sender |-> s, recipient |-> r, amount |-> a, timestamp |-> ts,
     sender_public_key |-> pk,
     signature |-> sign_transaction(signer,
                      [sender |-> s, recipient |-> r, amount |-> a, timestamp |-> ts])]

\* a transfer signed by the sender's own wallet
Transfer(s, r, a, ts) == create_signed_transaction(s, r, a, ts, KeyOf(s), KeyOf(s))

\* transactions signed by their sender's wallet
SignedTxs(t) ==
    {Transfer("A", "B", a, t) : a \in Amounts}
    \cup {Transfer("A", "A", 5, t), Transfer("B", "A", 5, t)}

\* a well-signed transfer with one defect each
DefectiveTxs(t) ==
    LET b == Transfer("A", "B", 5, t)
    IN {Without(b, f) : f \in RequiredFields \cup {"sender_public_key"}}
       \cup {create_signed_transaction("A", "B", 5, t, "kB", "kA"),
             [b EXCEPT !.signature = Lit("SYSTEM")]}

\* the transaction ui_buy_coins builds, with the signature as a parameter
SystemTx(s, r, a, t, sig) ==
    [sender |-> s, recipient |-> r, amount |-> a, timestamp |-> t,
     sender_public_key |-> "", signature |-> sig]

ReservedTxs(t) ==
    {SystemTx("system", "A", 5, t, sig) :
        sig \in {Lit("mining_reward"), Lit("SYSTEM"), Lit(""), Lit("forged")}}
    \cup {SystemTx("genesis", "A", 5, t, Lit("genesis_signature")),
          SystemTx("genesis", "A", 5, t, Lit("SYSTEM")),
          SystemTx("system", "A", 0, t, Lit("SYSTEM")),
          SystemTx("system", "system", 5, t, Lit("mining_reward"))}

\* what the validator is asked about
TxInputs(t) == SignedTxs(t) \cup DefectiveTxs(t) \cup ReservedTxs(t)

\* what is submitted to the pool
AdmissionInputs(t) ==
    TxInputs(t) \ {SystemTx("genesis", "A", 5, t, Lit("genesis_signature"))}

\* what callers hand to Blockchain.add_transaction_to_mempool
MempoolInputs(t) ==
    {Transfer("A", "B", 5, t),
     Without(Transfer("A", "B", 5, t), "signature"),
     SystemTx("system", "A", 5, t, Lit("mining_reward"))}

Miners == {"A"}

\* a peer running the same ledger code mines one block on top of c
PeerMine(c, m, d, r, t) ==
    Append(c, mine_block(PrepareBlock(c, m, r, PeerMiner, t).new_block, d))

RECURSIVE PeerExtend(_, _, _, _, _, _)
PeerExtend(c, m, k, d, r, t) ==
    IF k = 0 THEN c
    ELSE PeerExtend(PeerMine(c, m, d, r, t), <<>>, k - 1, d, r, t)

\* the chains honest peers may hold: a prefix of the local chain extended
\* by blocks the peer mined, possibly including a transaction broadcast to it
PeerChains(c, pending, d, r, t) ==
    {PeerExtend(SubSeq(c, 1, j), m, k, d, r, t) :
        j \in 1..Len(c), k \in 0..(MaxChain - 1), m \in {<<>>, Take(pending, 1)}}

HonestChains(c, pending, d, r, t) ==
    {ChainDicts(pc) : pc \in {x \in PeerChains(c, pending, d, r, t) : Len(x) <= MaxChain}}

\* a served chain whose block i carries a wrong hash
BadHash(cd, i) == [cd EXCEPT ![i].hash = (cd[i].hash + 1) % HashSpace]

\* a served chain whose block i points at a wrong predecessor
BadLink(cd, i) == [cd EXCEPT ![i].previous_hash = cd[i].previous_hash + 1]

\* a served chain whose block i was rehashed with another nonce
BadWork(cd, i) ==
    [cd EXCEPT ![i].nonce = cd[i].nonce + 1,
               ![i].hash = calculate_hash(cd[i].index, cd[i].timestamp,
                              cd[i].transactions, cd[i].previous_hash,
                              cd[i].nonce + 1)]

\* a served chain whose block i lacks its hash field
Malformed(cd, i) == [cd EXCEPT ![i] = Without(cd[i], "hash")]

\* the candidate lists replace_chain is called with
Candidates(c, pending, d, r, t) ==
    LET honest == HonestChains(c, pending, d, r, t)
    IN honest
       \cup {BadHash(cd[1], cd[2]) :
               cd \in {x \in honest \X (1..MaxChain) : x[2] <= Len(x[1])}}
       \cup {BadLink(cd, Len(cd)) : cd \in honest}
       \cup {BadWork(cd, Len(cd)) : cd \in honest}
       \cup {Malformed(cd, Len(cd)) : cd \in honest}

\* what a peer answers to GET /chain during a sync: no answer, or a chain
SyncAnswers(c, pending, d, r, t) ==
    LET ahead == ChainDicts(PeerExtend(c, Take(pending, 1), 1, d, r, t))
        fork == ChainDicts(PeerExtend(SubSeq(c, 1, 1), <<>>, Len(c), d, r, t))
    IN IF Len(c) < MaxChain
       THEN {<<>>, ahead, fork, BadHash(ahead, Len(ahead)), Malformed(fork, Len(fork))}
       ELSE {<<>>, ChainDicts(c)}

NoCall == [op |-> "none", arg |-> <<>>, out |-> <<>>]

IdleThread == [pc |-> "idle", miner_address |-> None, new_block |-> <<>>]

NodeId == "127.0.0.1:5000"

\* the inbound connections a run accepts
ConnIds == {"c1", "c2"}

----------------------------------------------------------------------------
(* The ledger and the pool called in sequence by one caller *)

\* Blockchain.__init__ with no snapshot present, TransactionPool.__init__,
\* BlockchainNode.__init__ and the initial peers main() adds
InitWith(initial_peers) ==
    LET b == load_blockchain(AbsentFile, Difficulty, MiningReward, 0)
    IN /\ chain = b.chain
       /\ mempool = b.mempool
       /\ difficulty = b.difficulty
       /\ mining_reward = b.mining_reward
       /\ blockchain_file = b.file
       /\ pending_transactions = <<>>
       /\ is_mining = FALSE
       /\ mining_address = None
       /\ threads = [t \in 1..MaxThreads |-> IdleThread]
       /\ peers = initial_peers
       /\ p2p = [node_id |-> NodeId, is_running |-> FALSE,
                 peers |-> [id \in {} |-> <<>>], discovery |-> "sleep",
                 connecting |-> {}, server_socket |-> "none",
                 accept_loop |-> "off", consumer |-> "off",
                 message_queue |-> <<>>,
                 readers |-> [c \in ConnIds |-> [state |-> "none", sent |-> 0]]]
       /\ now = 0
       /\ ret = NoCall

\* the node started with --peers peer1 peer2
Init == InitWith(<<"peer1", "peer2">>)

\* time passes
Tick ==
    /\ now < MaxTime
    /\ now' = now + 1
    /\ UNCHANGED <<ledger, pending_transactions, mining, network, ret>>

\* Blockchain.replace_chain(new_chain)
ReplaceChain(new_chain) ==
    \E o \in {replace_chain(chain, difficulty, mining_reward, mempool,
                            blockchain_file, new_chain, now)} :
       /\ chain' = o.chain
       /\ blockchain_file' = o.file
       /\ ret' = [op |-> "replace_chain",
                  arg |-> [new_chain |-> new_chain, length_before |-> Len(chain)],
                  out |-> o.result]
       /\ UNCHANGED <<mempool, difficulty, mining_reward, pending_transactions,
                      mining, network, now>>

\* Blockchain.mine_pending_transactions(address), run to completion
MinePendingTransactions(address) ==
    /\ Len(chain) < MaxChain
    /\ \E p \in {PrepareBlock(chain, mempool, mining_reward, address, now)} :
       \E b \in {mine_block(p.new_block, difficulty)} :
          /\ chain' = Append(chain, b)
          /\ blockchain_file' = Snapshot(Append(chain, b), difficulty,
                                         mining_reward, p.mempool)
          /\ mempool' = RemoveMined(p.mempool, b)
          /\ ret' = [op |-> "mine_pending_transactions", arg |-> address, out |-> b]
    /\ UNCHANGED <<difficulty, mining_reward, pending_transactions, mining,
                   network, now>>

\* Blockchain.add_transaction_to_mempool(tx)
AddTransactionToMempool(tx) ==
    /\ Len(mempool) < MaxMempool
    /\ LET o == add_transaction_to_mempool(tx, mempool)
       IN /\ mempool' = o.mempool
          /\ ret' = [op |-> "add_transaction_to_mempool", arg |-> tx, out |-> o.ok]
    /\ UNCHANGED <<chain, difficulty, mining_reward, blockchain_file,
                   pending_transactions, mining, network, now>>

\* TransactionValidator.validate_transaction(tx)
ValidateTransaction(tx) ==
    /\ ret' = [op |-> "validate_transaction", arg |-> tx,
               out |-> validate_transaction(tx, chain, mempool)]
    /\ UNCHANGED <<ledger, pending_transactions, mining, network, now>>

\* TransactionPool.add_transaction(tx)
PoolAddTransaction(tx) ==
    LET o == add_transaction(tx, pending_transactions, chain, mempool)
    IN /\ pending_transactions' = o.pending
       /\ ret' = [op |-> "add_transaction", arg |-> tx, out |-> <<o.ok, o.message>>]
       /\ UNCHANGED <<ledger, mining, network, now>>

\* TransactionPool.remove_transactions(ids)
PoolRemoveTransactions(ids) ==
    /\ pending_transactions' = remove_transactions(pending_transactions, ids)
    /\ ret' = [op |-> "remove_transactions", arg |-> ids, out |-> <<>>]
    /\ UNCHANGED <<ledger, mining, network, now>>

\* TransactionPool.clear_invalid_transactions()
PoolClearInvalid ==
    LET kept == clear_invalid_transactions(pending_transactions, chain, mempool)
    IN /\ pending_transactions' = kept
       /\ ret' = [op |-> "clear_invalid_transactions", arg |-> <<>>,
                  out |-> Len(pending_transactions) - Len(kept)]
       /\ UNCHANGED <<ledger, mining, network, now>>

\* the ids BlockchainNode._mine_block_background collects from the mined block
MinedTxIds(b) ==
    {get_transaction_id_or_empty(b.transactions[i]) : i \in 1..Len(b.transactions)}

\* BlockchainNode._mine_block_background(address), run to completion with
\* nothing else in between
MineBlockBackground(address) ==
    /\ Len(chain) < MaxChain
    /\ \E p \in {PrepareBlock(chain,
                              mempool \o get_transactions_for_mining(
                                             pending_transactions, MiningBatch),
                              mining_reward, address, now)} :
       \E b \in {mine_block(p.new_block, difficulty)} :
          /\ chain' = Append(chain, b)
          /\ blockchain_file' = Snapshot(Append(chain, b), difficulty,
                                         mining_reward, p.mempool)
          /\ mempool' = RemoveMined(p.mempool, b)
          /\ pending_transactions' =
                remove_transactions(pending_transactions, MinedTxIds(b))
          /\ ret' = [op |-> "mine_block_background", arg |-> address, out |-> b]
    /\ UNCHANGED <<difficulty, mining_reward, mining, network, now>>

\* Blockchain.add_transaction_to_mempool called again and again by a client
\* whose transfers differ in their amounts, up to a backlog longer than one
\* block takes
AddToBacklog ==
    /\ Len(mempool) < MaxBacklog
    /\ \E tx \in {Transfer("A", "B", Len(mempool) + 1, now)} :
          \E o \in {add_transaction_to_mempool(tx, mempool)} :
             /\ mempool' = o.mempool
             /\ ret' = [op |-> "add_transaction_to_mempool", arg |-> tx, out |-> o.ok]
    /\ UNCHANGED <<chain, difficulty, mining_reward, blockchain_file,
                   pending_transactions, mining, network, now>>

BacklogNext ==
    \/ AddToBacklog
    \/ \E a \in Miners : MinePendingTransactions(a)

BacklogSpec == Init /\ [][BacklogNext]_vars

\* Blockchain.get_balance(address)
GetBalance(address) ==
    /\ ret' = [op |-> "get_balance", arg |-> address, out |-> get_balance(chain, address)]
    /\ UNCHANGED <<ledger, pending_transactions, mining, network, now>>

\* the addresses whose balance is asked for
Addresses == Users \cup {PeerMiner, "system"}

\* a ledger fed with transfers in both directions, mined by a holder or by a
\* third party, and queried for balances
BalanceNext ==
    \/ \E tx \in {Transfer("A", "B", 5, now), Transfer("B", "A", 5, now)} :
          AddTransactionToMempool(tx)
    \/ \E a \in {"A", PeerMiner} : MinePendingTransactions(a)
    \/ \E a \in Addresses : GetBalance(a)

BalanceSpec == Init /\ [][BalanceNext]_vars

\* Blockchain.save_blockchain()
SaveBlockchain ==
    /\ blockchain_file' = Snapshot(chain, difficulty, mining_reward, mempool)
    /\ ret' = [op |-> "save_blockchain", arg |-> <<>>, out |-> <<>>]
    /\ UNCHANGED <<chain, mempool, difficulty, mining_reward,
                   pending_transactions, mining, network, now>>

\* what can happen to the snapshot on disk while the program is not running
DamagedFiles(file) ==
    {AbsentFile, CorruptFile, UndecodableFile, NotObjectFile}
    \cup (IF file.kind = "json" /\ Has(file, "chain")
          THEN {Without(file, "chain"),
                [file EXCEPT !.chain = Malformed(file.chain, Len(file.chain))]}
          ELSE {})

\* the snapshot is deleted, overwritten or cut short outside the program
DamageFile(file) ==
    /\ blockchain_file' = file
    /\ ret' = [op |-> "damage", arg |-> <<>>, out |-> file.kind]
    /\ UNCHANGED <<chain, mempool, difficulty, mining_reward,
                   pending_transactions, mining, network, now>>

\* the program starts: Blockchain.__init__ with the node's arguments, which
\* ends in load_blockchain.  When load_blockchain raises, the constructor
\* raises and no ledger exists (the fields are as the constructor set them).
Restart ==
    /\ IF load_blockchain_raises(blockchain_file)
       THEN /\ chain' = <<>>
            /\ mempool' = <<>>
            /\ difficulty' = Difficulty
            /\ mining_reward' = MiningReward
            /\ blockchain_file' = blockchain_file
            /\ ret' = [op |-> "load_blockchain", arg |-> blockchain_file,
                       out |-> "raise"]
       ELSE \E b \in {load_blockchain(blockchain_file, Difficulty, MiningReward, now)} :
               /\ chain' = b.chain
               /\ mempool' = b.mempool
               /\ difficulty' = b.difficulty
               /\ mining_reward' = b.mining_reward
               /\ blockchain_file' = b.file
               /\ ret' = [op |-> "load_blockchain", arg |-> blockchain_file,
                          out |-> "ok"]
    /\ UNCHANGED <<pending_transactions, mining, network, now>>

\* a ledger that is used, saved, stopped and started again
RestartNext ==
    \/ chain # <<>> /\ \E tx \in MempoolInputs(now) : AddTransactionToMempool(tx)
    \/ chain # <<>> /\ \E a \in Miners : MinePendingTransactions(a)
    \/ chain # <<>> /\ SaveBlockchain
    \/ \E file \in DamagedFiles(blockchain_file) : DamageFile(file)
    \/ Restart

RestartSpec == Init /\ [][RestartNext]_vars

\* snapshots edited outside the program: one block of the stored chain
\* carries a wrong hash, a wrong link or a nonce without proof of work
TamperedFiles(file) ==
    IF file.kind = "json" /\ Has(file, "chain")
    THEN UNION {{[file EXCEPT !.chain = BadHash(file.chain, i)],
                 [file EXCEPT !.chain = BadLink(file.chain, i)],
                 [file EXCEPT !.chain = BadWork(file.chain, i)]} :
                i \in 1..Len(file.chain)}
    ELSE {}

\* the snapshot is the one the program wrote for a chain nobody has edited
Untampered ==
    /\ blockchain_file = Snapshot(chain, difficulty, mining_reward, mempool)
    /\ chain[1].previous_hash = RootHash
    /\ \A i \in 1..Len(chain) : chain[i].hash = BlockHash(chain[i])
    /\ \A i \in 1..Len(chain) : LeadingZeros(chain[i].hash, difficulty)
    /\ \A i \in 2..Len(chain) : chain[i].previous_hash = chain[i - 1].hash

\* Blockchain.is_chain_valid called on the ledger (GET /chain, node.py:119)
IsChainValid ==
    /\ ret' = [op |-> "is_chain_valid", arg |-> chain,
               out |-> is_chain_valid(chain, difficulty)]
    /\ UNCHANGED <<ledger, pending_transactions, mining, network, now>>

\* a ledger that is mined, stored, edited on disk, loaded and validated
ValidationNext ==
    \/ \E tx \in MempoolInputs(now) : AddTransactionToMempool(tx)
    \/ \E a \in Miners : MinePendingTransactions(a)
    \/ Untampered /\ \E file \in TamperedFiles(blockchain_file) : DamageFile(file)
    \/ Restart
    \/ IsChainValid

ValidationSpec == Init /\ [][ValidationNext]_vars

\* the difficulty of the demonstration ledger, lower than the node's
DemoDifficulty == Difficulty - 1

\* what the snapshot file can hold while the program runs without the
\* program having written it: nothing (the data directory was cleared),
\* bytes that are no text, or the fresh ledger another program of the
\* repository wrote to the same path
ForeignFiles(r, t) ==
    {AbsentFile, UndecodableFile,
     Snapshot(<<create_genesis_block(DemoDifficulty, t)>>, DemoDifficulty, r, <<>>)}

\* a running ledger whose snapshot file is also touched from outside
ReplaceNext ==
    \/ \E c \in Candidates(chain, pending_transactions, difficulty, mining_reward, now) :
          ReplaceChain(c)
    \/ \E a \in Miners : MinePendingTransactions(a)
    \/ \E tx \in MempoolInputs(now) : AddTransactionToMempool(tx)
    \/ \E file \in ForeignFiles(mining_reward, now) : DamageFile(file)

ReplaceSpec == Init /\ [][ReplaceNext]_vars

\* a served chain whose genesis block names a predecessor other than the
\* root value; its stored hash is left as it is
ForgedGenesis(cd) == BadLink(cd, 1)

\* a served chain whose last block was built with an index one too high and
\* then mined like any other block
ForgedIndex(cd, d) ==
    LET b == cd[Len(cd)]
    IN [cd EXCEPT ![Len(cd)] =
           to_dict(mine_block(Block(b.index + 1, b.timestamp, b.transactions,
                                    b.previous_hash, 0), d))]

\* chains a peer that does not run this code can serve: they keep the three
\* rules is_chain_valid tests
ForgedChains(c, pending, d, r, t) ==
    UNION {{ForgedGenesis(cd), ForgedIndex(cd, d)} :
              cd \in {x \in HonestChains(c, pending, d, r, t) : Len(x) >= 2}}

\* a ledger that mines and is offered honest, broken and forged chains
ForgeryNext ==
    \/ \E c \in Candidates(chain, pending_transactions, difficulty, mining_reward, now)
                \cup ForgedChains(chain, pending_transactions, difficulty,
                                  mining_reward, now) :
          ReplaceChain(c)
    \/ \E a \in Miners : MinePendingTransactions(a)
    \/ \E tx \in MempoolInputs(now) : AddTransactionToMempool(tx)

ForgerySpec == Init /\ [][ForgeryNext]_vars

----------------------------------------------------------------------------
(* The socket peer network: src/peer.py, class P2PNetwork *)

PeerIds == {"10.0.0.1:8000", "10.0.0.2:8000"}

\* what the network does to one connection attempt and to one send
Nets == [connect : BOOLEAN, send : BOOLEAN]

\* P2PPeer.__init__
P2PPeer(t) ==
    [last_seen |-> t, connection_attempts |-> 0, is_connected |-> FALSE,
     socket_connection |-> "none"]

\* P2PNetwork._send_message_to_peer: the peer after the send
send_message_to_peer(peer, net) ==
    IF ~peer.is_connected \/ peer.socket_connection = "none" THEN peer
    ELSE IF net.send /\ peer.socket_connection = "open" THEN peer
    ELSE [peer EXCEPT !.is_connected = FALSE]

\* _connect_to_peer that leaves the counter of failed attempts as it is
\* when the connect succeeds
connect_to_peer_keeps_count(peer, net, t) ==
    IF net.connect
    THEN send_message_to_peer(
             [peer EXCEPT !.socket_connection = "open", !.is_connected = TRUE,
                          !.last_seen = t], net)
    ELSE [peer EXCEPT !.connection_attempts = @ + 1, !.is_connected = FALSE]

\* P2PNetwork._connect_to_peer: the peer after the attempt, the PING that
\* follows a successful connect included
connect_to_peer(peer, net, t) ==
    IF net.connect
    THEN send_message_to_peer(
             [peer EXCEPT !.socket_connection = "open", !.is_connected = TRUE,
                          !.last_seen = t, !.connection_attempts = 0], net)
    ELSE [peer EXCEPT !.connection_attempts = @ + 1, !.is_connected = FALSE]

\* P2PNetwork.add_peer: the peer set after the call
add_peer(ps, node_id, id, net, t) ==
    IF id = node_id \/ id \in DOMAIN ps THEN ps
    ELSE [x \in DOMAIN ps \cup {id} |->
             IF x = id THEN connect_to_peer(P2PPeer(t), net, t) ELSE ps[x]]

\* the peers P2PNetwork._ping_all_peers tries to connect to
Reconnects(ps) ==
    {id \in DOMAIN ps : ~ps[id].is_connected
                        /\ ps[id].connection_attempts < MaxAttempts}

\* P2PNetwork._ping_all_peers
ping_all_peers(ps, nets, t) ==
    [id \in DOMAIN ps |->
        IF ps[id].is_connected THEN send_message_to_peer(ps[id], nets[id])
        ELSE IF ps[id].connection_attempts < MaxAttempts
        THEN connect_to_peer(ps[id], nets[id], t)
        ELSE ps[id]]

\* the dead_peers list with the attempts test "more than" instead of
\* "at least"
dead_peers_over(ps, current_time) ==
    {id \in DOMAIN ps : /\ ~ps[id].is_connected
                        /\ ps[id].connection_attempts > MaxAttempts
                        /\ current_time - ps[id].last_seen > DeadAfter}

\* the dead_peers list with the age test "at least" instead of "more than"
dead_peers_at(ps, current_time) ==
    {id \in DOMAIN ps : /\ ~ps[id].is_connected
                        /\ ps[id].connection_attempts >= MaxAttempts
                        /\ current_time - ps[id].last_seen >= DeadAfter}

\* the dead_peers list P2PNetwork._cleanup_dead_peers collects
dead_peers(ps, current_time) ==
    {id \in DOMAIN ps : /\ ~ps[id].is_connected
                        /\ ps[id].connection_attempts >= MaxAttempts
                        /\ current_time - ps[id].last_seen > DeadAfter}

\* P2PNetwork._cleanup_dead_peers
cleanup_dead_peers(ps, current_time) ==
    [id \in DOMAIN ps \ dead_peers(ps, current_time) |-> ps[id]]

\* P2PNetwork.start()
StartNetwork ==
    /\ ~p2p.is_running
    /\ p2p.consumer = "off"
    /\ p2p' = [p2p EXCEPT !.is_running = TRUE, !.server_socket = "listening",
                          !.accept_loop = "accepting", !.consumer = "waiting"]
    /\ ret' = [op |-> "start", arg |-> <<>>, out |-> <<>>]
    /\ UNCHANGED <<ledger, pending_transactions, mining, peers, now>>

\* P2PNetwork.add_peer(address, port)
AddPeer(id, net) ==
    /\ p2p.is_running
    /\ p2p' = [p2p EXCEPT !.peers = add_peer(@, p2p.node_id, id, net, now)]
    /\ ret' = [op |-> "add_peer", arg |-> id,
               out |-> id # p2p.node_id /\ id \notin DOMAIN p2p.peers]
    /\ UNCHANGED <<ledger, pending_transactions, mining, peers, now>>

\* P2PNetwork._handle_peer_list for a PEER_LIST message that names one peer
HandlePeerList(id, net) ==
    /\ p2p.is_running
    /\ p2p' = [p2p EXCEPT !.peers = add_peer(@, p2p.node_id, id, net, now)]
    /\ ret' = [op |-> "_handle_peer_list", arg |-> id, out |-> <<>>]
    /\ UNCHANGED <<ledger, pending_transactions, mining, peers, now>>

\* P2PNetwork._handle_ping and _handle_pong for a message whose sender_id
\* is id
HandlePing(id) ==
    /\ p2p.is_running
    /\ p2p' = [p2p EXCEPT !.peers =
                  [x \in DOMAIN @ |-> IF x = id THEN [@[x] EXCEPT !.last_seen = now]
                                      ELSE @[x]]]
    /\ ret' = [op |-> "_handle_ping", arg |-> <<>>, out |-> <<>>]
    /\ UNCHANGED <<ledger, pending_transactions, mining, peers, now>>

\* a send to a connected peer fails outside the maintenance pass
\* (broadcast_message)
ConnectionLost(id) ==
    /\ id \in DOMAIN p2p.peers
    /\ p2p.peers[id].is_connected
    /\ p2p' = [p2p EXCEPT !.peers[id] =
                  send_message_to_peer(@, [connect |-> FALSE, send |-> FALSE])]
    /\ ret' = [op |-> "_send_message_to_peer", arg |-> <<>>, out |-> FALSE]
    /\ UNCHANGED <<ledger, pending_transactions, mining, peers, now>>

\* the peers in the order the dictionary self.peers yields them
RECURSIVE PeerOrder(_)
PeerOrder(ids) ==
    IF ids = {} THEN <<>>
    ELSE LET id == CHOOSE x \in ids : TRUE
         IN <<id>> \o PeerOrder(ids \ {id})

\* broadcast_message that lets the first failed send end the loop
RECURSIVE broadcast_message_abort(_, _, _, _)
broadcast_message_abort(ps, order, nets, acc) ==
    IF order = <<>> THEN [peers |-> ps, sent_count |-> acc.sent_count, sends |-> acc.sends]
    ELSE LET id == Head(order)
         IN IF ~ps[id].is_connected
            THEN broadcast_message_abort(ps, Tail(order), nets, acc)
            ELSE LET after == send_message_to_peer(ps[id], nets[id])
                 IN IF after.is_connected
                    THEN broadcast_message_abort(
                             [ps EXCEPT ![id] = after], Tail(order), nets,
                             [sent_count |-> acc.sent_count + 1,
                              sends |-> Append(acc.sends, id)])
                    ELSE [peers |-> [ps EXCEPT ![id] = after],
                          sent_count |-> acc.sent_count,
                          sends |-> Append(acc.sends, id)]

\* P2PNetwork.broadcast_message: the loop over self.peers.values(); acc
\* holds sent_count and the sends made so far
RECURSIVE broadcast_message(_, _, _, _)
broadcast_message(ps, order, nets, acc) ==
    IF order = <<>> THEN [peers |-> ps, sent_count |-> acc.sent_count, sends |-> acc.sends]
    ELSE LET id == Head(order)
         IN IF ~ps[id].is_connected
            THEN broadcast_message(ps, Tail(order), nets, acc)
            ELSE LET after == send_message_to_peer(ps[id], nets[id])
                 IN broadcast_message(
                        [ps EXCEPT ![id] = after], Tail(order), nets,
                        [sent_count |-> IF after.is_connected
                                        THEN acc.sent_count + 1
                                        ELSE acc.sent_count,
                         sends |-> Append(acc.sends, id)])

\* P2PNetwork.broadcast_message(message_type, data)
Broadcast(nets) ==
    \E o \in {broadcast_message(p2p.peers, PeerOrder(DOMAIN p2p.peers), nets,
                                [sent_count |-> 0, sends |-> <<>>])} :
       /\ p2p' = [p2p EXCEPT !.peers = o.peers]
       /\ ret' = [op |-> "broadcast_message", arg |-> o.sends,
                  out |-> o.sent_count]
       /\ UNCHANGED <<ledger, pending_transactions, mining, peers, now>>

\* the first half of one turn of P2PNetwork._peer_discovery_loop
PingAllPeers(nets) ==
    /\ p2p.is_running
    /\ p2p.discovery = "sleep"
    /\ p2p' = [p2p EXCEPT !.peers = ping_all_peers(@, nets, now),
                          !.discovery = "pinged"]
    /\ ret' = [op |-> "_ping_all_peers", arg |-> <<>>,
               out |-> Reconnects(p2p.peers)]
    /\ UNCHANGED <<ledger, pending_transactions, mining, peers, now>>

\* the second half of the turn, after which the loop sleeps
CleanupDeadPeers ==
    /\ p2p.discovery = "pinged"
    /\ p2p' = [p2p EXCEPT !.peers = cleanup_dead_peers(@, now),
                          !.discovery = "sleep"]
    /\ ret' = [op |-> "_cleanup_dead_peers", arg |-> <<>>,
               out |-> dead_peers(p2p.peers, now)]
    /\ UNCHANGED <<ledger, pending_transactions, mining, peers, now>>

\* the instants at which the model reads time.time(): the start, a second
\* later, the eviction delay after the start, a second after that, and the
\* end of the run
ClockReadings ==
    {t \in {0, 1, DeadAfter, DeadAfter + 1, MaxClock} : t <= MaxClock}

\* time passes up to a later reading
PeerTick(t) ==
    /\ t > now
    /\ now' = t
    /\ UNCHANGED <<ledger, pending_transactions, mining, network, ret>>

PeerNext ==
    \/ StartNetwork
    \/ \E id \in PeerIds \cup {NodeId}, net \in Nets : AddPeer(id, net)
    \/ \E id \in PeerIds, net \in Nets : HandlePeerList(id, net)
    \/ \E id \in PeerIds : HandlePing(id)
    \/ \E id \in PeerIds : ConnectionLost(id)
    \/ \E nets \in [PeerIds -> Nets] : Broadcast(nets)
    \/ \E nets \in [PeerIds -> Nets] : PingAllPeers(nets)
    \/ CleanupDeadPeers
    \/ \E t \in ClockReadings : PeerTick(t)

PeerSpec == Init /\ [][PeerNext]_vars

\* time passes by d seconds, with no bound on how often. The code reads
\* the clock only to store it in last_seen and to take the difference
\* current_time - last_seen, so the clock is kept relative to now: every
\* last_seen moves back by d, and an age beyond the eviction delay is kept
\* as DeadAfter + 1
TimePasses(d) ==
    /\ p2p' = [p2p EXCEPT !.peers =
                  [x \in DOMAIN @ |->
                      [@[x] EXCEPT !.last_seen =
                          IF now - (@ - d) > DeadAfter THEN now - (DeadAfter + 1)
                          ELSE @ - d]]]
    /\ UNCHANGED <<ledger, pending_transactions, mining, peers, now, ret>>

\* the running network: peers are added, connections break, PING and PONG
\* messages arrive, the discovery loop makes its passes and time passes. A
\* connect may fail; a send on a fresh connection goes through
MaintenanceNext ==
    \/ StartNetwork
    \/ \E id \in PeerIds, net \in {n \in Nets : n.send} : AddPeer(id, net)
    \/ \E id \in PeerIds : HandlePing(id)
    \/ \E id \in PeerIds : ConnectionLost(id)
    \/ \E nets \in [PeerIds -> {n \in Nets : n.send}] : PingAllPeers(nets)
    \/ CleanupDeadPeers
    \/ \E d \in {DeadAfter, DeadAfter + 1} : TimePasses(d)

\* the discovery loop is a thread of its own that is never stopped here, so
\* each half of its turn is taken eventually; time does not stand still
MaintenanceFairSpec ==
    /\ Init
    /\ [][MaintenanceNext]_vars
    /\ WF_vars(\E nets \in [PeerIds -> {n \in Nets : n.send}] : PingAllPeers(nets))
    /\ WF_vars(CleanupDeadPeers)
    /\ WF_vars(\E d \in {DeadAfter, DeadAfter + 1} : TimePasses(d))

\* the messages that leave through the socket during _connect_to_peer
connect_to_peer_sends(net) ==
    IF net.connect /\ net.send THEN <<"ping">> ELSE <<>>

\* one call of P2PNetwork._connect_to_peer(peer) from the loop of
\* _ping_all_peers, for a peer that is disconnected and has attempts left
ConnectToPeer(id, net) ==
    /\ p2p.is_running
    /\ id \in Reconnects(p2p.peers)
    /\ p2p' = [p2p EXCEPT !.peers[id] = connect_to_peer(@, net, now)]
    /\ ret' = [op |-> "_connect_to_peer",
               arg |-> [peer_id |-> id, peer |-> p2p.peers[id]],
               out |-> [returned |-> net.connect,
                        sent |-> connect_to_peer_sends(net)]]
    /\ UNCHANGED <<ledger, pending_transactions, mining, peers, now>>

\* peers that are added, lost and reconnected one call at a time
ConnectNext ==
    \/ StartNetwork
    \/ \E id \in PeerIds, net \in Nets : AddPeer(id, net)
    \/ \E id \in PeerIds : HandlePing(id)
    \/ \E id \in PeerIds : ConnectionLost(id)
    \/ \E id \in PeerIds, net \in Nets : ConnectToPeer(id, net)
    \/ \E t \in ClockReadings : PeerTick(t)

ConnectSpec == Init /\ [][ConnectNext]_vars

\* P2PNetwork.add_peer up to the call of _connect_to_peer: the new peer is
\* in the dictionary and the connection attempt is under way in the
\* caller's thread
AddPeerBegin(id) ==
    /\ p2p.is_running
    /\ id # p2p.node_id
    /\ id \notin DOMAIN p2p.peers
    /\ id \notin p2p.connecting
    /\ p2p' = [p2p EXCEPT
                  !.peers = [x \in DOMAIN @ \cup {id} |->
                                IF x = id THEN P2PPeer(now) ELSE @[x]],
                  !.connecting = @ \cup {id}]
    /\ ret' = [op |-> "add_peer", arg |-> id, out |-> "connecting"]
    /\ UNCHANGED <<ledger, pending_transactions, mining, peers, now>>

\* the attempt add_peer started comes back; it updates the peer object it
\* was started for, which the cleanup may have removed from the dictionary
AddPeerEnd(id, net) ==
    /\ id \in p2p.connecting
    /\ p2p' = [p2p EXCEPT
                  !.peers = [x \in DOMAIN @ |->
                                IF x = id THEN connect_to_peer(@[x], net, now)
                                ELSE @[x]],
                  !.connecting = @ \ {id}]
    /\ ret' = [op |-> "add_peer", arg |-> id, out |-> TRUE]
    /\ UNCHANGED <<ledger, pending_transactions, mining, peers, now>>

\* add_peer in one thread (the caller or the message consumer) while the
\* maintenance loop runs in its own
PeerRaceNext ==
    \/ StartNetwork
    \/ \E id \in PeerIds : AddPeerBegin(id)
    \/ \E id \in PeerIds, net \in Nets : AddPeerEnd(id, net)
    \/ \E nets \in [PeerIds -> Nets] : PingAllPeers(nets)
    \/ CleanupDeadPeers
    \/ \E t \in ClockReadings : PeerTick(t)

PeerRaceSpec == Init /\ [][PeerRaceNext]_vars

----------------------------------------------------------------------------
(* The two peer sets of a node and the ways an address enters them *)

\* the values of --peers the node is started with
PeerArgs == {<<>>, <<"peer1">>, <<NodeId>>, <<"peer1", NodeId>>}

\* main(): BlockchainNode(host, port), then node.peers.extend(args.peers)
NodeInit == \E args \in PeerArgs : InitWith(args)

InList(x, l) == \E i \in 1..Len(l) : l[i] = x

\* the 'address' values of the bodies sent to POST /peers
PeerAddresses == {"peer1", "peer2", NodeId, ""}

\* BlockchainNode.add_peer: POST /peers
HandleAddPeer(peer_address) ==
    /\ IF peer_address = ""
       THEN /\ peers' = peers
            /\ ret' = [op |-> "POST /peers", arg |-> peer_address, out |-> 400]
       ELSE IF ~InList(peer_address, peers) /\ peer_address # NodeId
       THEN /\ peers' = Append(peers, peer_address)
            /\ ret' = [op |-> "POST /peers", arg |-> peer_address, out |-> 201]
       ELSE /\ peers' = peers
            /\ ret' = [op |-> "POST /peers", arg |-> peer_address, out |-> 200]
    /\ UNCHANGED <<ledger, pending_transactions, mining, p2p, now>>

NodePeersNext ==
    \/ StartNetwork
    \/ \E a \in PeerAddresses : HandleAddPeer(a)
    \/ \E id \in PeerIds \cup {NodeId}, net \in Nets : AddPeer(id, net)
    \/ \E id \in PeerIds \cup {NodeId}, net \in Nets : HandlePeerList(id, net)

NodePeersSpec == NodeInit /\ [][NodePeersNext]_vars

----------------------------------------------------------------------------
(* Messages: the readers, the queue and the consumer of P2PNetwork *)

\* P2PMessage.to_dict
message_to_dict(type, data, sender_id, timestamp) ==
    [type |-> type, data |-> data, sender_id |-> sender_id,
     timestamp |-> timestamp]

MessageFields == {"type", "data", "sender_id", "timestamp"}

\* P2PMessage.from_dict raises KeyError on a dictionary that lacks a field
message_from_dict_raises(data) == ~(MessageFields \subseteq DOMAIN data)

\* P2PMessage.from_dict: the constructor stamps the receive time and
\* from_dict overwrites it with the sender's timestamp
message_from_dict(data, t) ==
    [[type |-> data.type, data |-> data.data, sender_id |-> data.sender_id,
      timestamp |-> t] EXCEPT !.timestamp = data.timestamp]

\* the peer behind an inbound connection
PeerOf(c) == IF c = "c1" THEN "10.0.0.1:8000" ELSE "10.0.0.2:8000"

\* f"{address}:{port}" for the addresses of the model
PeerIdOf(info) ==
    IF info.address = "10.0.0.1" /\ info.port = 8000 THEN "10.0.0.1:8000"
    ELSE "10.0.0.2:8000"

\* what a peer may write to its connection as its k-th transmission: a PING,
\* a PEER_LIST whose second entry has no port, a NEW_BLOCK (a type without
\* a registered handler), an envelope without timestamp, text that is no
\* JSON, bytes that are no UTF-8 text, or nothing more (it closes the
\* connection)
Transmissions(c, k) ==
    {[kind |-> "json", value |-> message_to_dict("ping", <<>>, PeerOf(c), k)],
     [kind |-> "json",
      value |-> message_to_dict("peer_list",
                   [peers |-> <<[address |-> "10.0.0.1", port |-> 8000],
                                [address |-> "10.0.0.2"]>>],
                   PeerOf(c), k)],
     [kind |-> "json", value |-> message_to_dict("new_block", <<>>, PeerOf(c), k)],
     [kind |-> "json",
      value |-> Without(message_to_dict("ping", <<>>, PeerOf(c), k), "timestamp")],
     [kind |-> "not_json"],
     [kind |-> "not_text"],
     [kind |-> "eof"]}

\* queue.Queue.put with the newest message first
queue_put_front(q, message) == <<message>> \o q

\* queue.Queue.put
queue_put(q, message) == Append(q, message)

\* P2PNetwork._accept_connections: one accepted connection and its reader
\* thread
Accept(c) ==
    /\ p2p.accept_loop = "accepting"
    /\ p2p.server_socket = "listening"
    /\ p2p.readers[c].state = "none"
    /\ p2p' = [p2p EXCEPT !.readers[c].state = "reading"]
    /\ ret' = [op |-> "accept", arg |-> c, out |-> <<>>]
    /\ UNCHANGED <<ledger, pending_transactions, mining, peers, now>>

\* P2PNetwork._handle_peer_connection: one recv and what follows it, up to
\* the next recv or the end of the thread
ReceiveData(c, data) ==
    /\ p2p.readers[c].state = "reading"
    /\ p2p.readers[c].sent < MaxSent
    /\ LET again == IF p2p.is_running THEN "reading" ELSE "closed"
       IN IF data.kind \in {"eof", "not_text"}
          THEN /\ p2p' = [p2p EXCEPT !.readers[c] = [state |-> "closed", sent |-> @.sent + 1]]
               /\ ret' = [op |-> "recv", arg |-> <<c, data>>, out |-> "closed"]
          ELSE IF data.kind = "not_json"
          THEN /\ p2p' = [p2p EXCEPT !.readers[c] = [state |-> again, sent |-> @.sent + 1]]
               /\ ret' = [op |-> "recv", arg |-> <<c, data>>, out |-> "dropped"]
          ELSE IF message_from_dict_raises(data.value)
          THEN /\ p2p' = [p2p EXCEPT !.readers[c] = [state |-> "closed", sent |-> @.sent + 1]]
               /\ ret' = [op |-> "recv", arg |-> <<c, data>>, out |-> "closed"]
          ELSE /\ p2p' = [p2p EXCEPT
                             !.readers[c] = [state |-> again, sent |-> @.sent + 1],
                             !.message_queue =
                                 queue_put(@, message_from_dict(data.value, now))]
               /\ ret' = [op |-> "recv", arg |-> <<c, data>>, out |-> "enqueued"]
    /\ UNCHANGED <<ledger, pending_transactions, mining, peers, now>>

\* P2PNetwork._handle_peer_list: the loop over the received list; acc holds
\* the peer set, the peers a connection was attempted to, and whether an
\* entry raised
RECURSIVE handle_peer_list(_, _, _, _, _)
handle_peer_list(peer_list, acc, node_id, net, t) ==
    IF peer_list = <<>> THEN acc
    ELSE LET peer_info == Head(peer_list)
         IN IF ~({"address", "port"} \subseteq DOMAIN peer_info)
            THEN [acc EXCEPT !.result = "raised"]
            ELSE LET id == PeerIdOf(peer_info)
                 IN handle_peer_list(
                        Tail(peer_list),
                        [acc EXCEPT
                            !.peers = add_peer(@, node_id, id, net, t),
                            !.connects = IF id = node_id \/ id \in DOMAIN acc.peers
                                         THEN @ ELSE @ \cup {id}],
                        node_id, net, t)

\* the handlers registered by _setup_default_handlers
HandledTypes == {"ping", "pong", "peer_discovery", "peer_list"}

\* the body of the loop of P2PNetwork._process_messages for one message: the
\* peer set afterwards, how the handling ended, and the peers the handler
\* connected to
process_message(ps, message, node_id, net, t) ==
    IF message.type \notin HandledTypes
    THEN [peers |-> ps, result |-> "no handler", connects |-> {}]
    ELSE IF message.type \in {"ping", "pong"}
    THEN [peers |-> [x \in DOMAIN ps |->
                        IF x = message.sender_id
                        THEN [ps[x] EXCEPT !.last_seen = t] ELSE ps[x]],
          result |-> "handled", connects |-> {}]
    ELSE IF message.type = "peer_discovery"
    THEN [peers |-> ps, result |-> "handled", connects |-> {}]
    ELSE handle_peer_list(
             IF Has(message.data, "peers") THEN message.data.peers ELSE <<>>,
             [peers |-> ps, result |-> "handled", connects |-> {}],
             node_id, net, t)

\* the consumer takes the oldest message off the queue and handles it; when
\* the network was stopped in the meantime the loop ends after it
Dispatch(net) ==
    /\ p2p.consumer = "waiting"
    /\ p2p.message_queue # <<>>
    /\ \E o \in {process_message(p2p.peers, Head(p2p.message_queue),
                                 p2p.node_id, net, now)} :
          /\ p2p' = [p2p EXCEPT
                        !.peers = o.peers,
                        !.message_queue = Tail(@),
                        !.consumer = IF p2p.is_running THEN "waiting" ELSE "exited"]
          /\ ret' = [op |-> "_process_messages", arg |-> Head(p2p.message_queue),
                     out |-> [result |-> o.result, connects |-> o.connects]]
    /\ UNCHANGED <<ledger, pending_transactions, mining, peers, now>>

\* P2PNetwork.stop()
Stop ==
    /\ p2p.is_running
    /\ p2p' = [p2p EXCEPT
                  !.is_running = FALSE,
                  !.server_socket = "closed",
                  !.peers = [x \in DOMAIN @ |->
                                IF @[x].socket_connection = "none" THEN @[x]
                                ELSE [@[x] EXCEPT !.socket_connection = "closed"]]]
    /\ ret' = [op |-> "stop", arg |-> <<>>, out |-> <<>>]
    /\ UNCHANGED <<ledger, pending_transactions, mining, peers, now>>

\* the consumer finds is_running false at the head of its loop
ConsumerExit ==
    /\ ~p2p.is_running
    /\ p2p.consumer = "waiting"
    /\ p2p' = [p2p EXCEPT !.consumer = "exited"]
    /\ UNCHANGED <<ledger, pending_transactions, mining, peers, now, ret>>

\* the maintenance loop wakes from its sleep and finds is_running false
DiscoveryExit ==
    /\ ~p2p.is_running
    /\ p2p.discovery = "sleep"
    /\ p2p' = [p2p EXCEPT !.discovery = "exited"]
    /\ UNCHANGED <<ledger, pending_transactions, mining, peers, now, ret>>

\* the accept call on the closed listening socket fails and the accept loop
\* ends; whether the blocked call returns at all depends on the platform
AcceptExit ==
    /\ ~p2p.is_running
    /\ p2p.accept_loop = "accepting"
    /\ p2p' = [p2p EXCEPT !.accept_loop = "exited"]
    /\ UNCHANGED <<ledger, pending_transactions, mining, peers, now, ret>>

MessageNext ==
    \/ StartNetwork
    \/ \E c \in ConnIds : Accept(c)
    \/ \E c \in ConnIds :
          \E data \in Transmissions(c, p2p.readers[c].sent + 1) : ReceiveData(c, data)
    \/ \E net \in Nets : Dispatch(net)
    \/ Stop
    \/ ConsumerExit
    \/ DiscoveryExit
    \/ AcceptExit

MessageSpec == Init /\ [][MessageNext]_vars

\* the consumer and the maintenance loop are threads that keep running
MessageFairSpec ==
    /\ MessageSpec
    /\ WF_vars(\E net \in Nets : Dispatch(net))
    /\ WF_vars(ConsumerExit)
    /\ WF_vars(DiscoveryExit)

LedgerNext ==
    \/ Tick
    \/ \E c \in Candidates(chain, pending_transactions, difficulty, mining_reward, now) :
          ReplaceChain(c)
    \/ \E a \in Miners : MinePendingTransactions(a)
    \/ \E tx \in MempoolInputs(now) : AddTransactionToMempool(tx)

LedgerSpec == Init /\ [][LedgerNext]_vars

PoolNext ==
    \/ \E a \in Miners : MineBlockBackground(a)
    \/ \E tx \in TxInputs(now) : ValidateTransaction(tx)
    \/ \E tx \in AdmissionInputs(now) : PoolAddTransaction(tx)
    \/ \E ids \in SUBSET {get_transaction_id(pending_transactions[i]) :
                            i \in 1..Len(pending_transactions)} :
          PoolRemoveTransactions(ids)
    \/ PoolClearInvalid

PoolSpec == Init /\ [][PoolNext]_vars

\* the ledger and the pool used in sequence: admissions, mining, pool
\* removals, purges and replacement attempts
ChainNext ==
    \/ \E c \in Candidates(chain, pending_transactions, difficulty, mining_reward, now) :
          ReplaceChain(c)
    \/ \E a \in Miners : MineBlockBackground(a)
    \/ \E tx \in AdmissionInputs(now) : PoolAddTransaction(tx)
    \/ \E ids \in SUBSET {get_transaction_id(pending_transactions[i]) :
                            i \in 1..Len(pending_transactions)} :
          PoolRemoveTransactions(ids)
    \/ PoolClearInvalid

ChainSpec == Init /\ [][ChainNext]_vars

\* what a wallet holder submits: two transfers, each within the balance one
\* block reward gives
SpendInputs(t) ==
    {Transfer("A", "B", 5, t), Transfer("A", "B", MiningReward, t),
     Transfer("B", "A", 5, t)}

\* transfers admitted to the pool and mined by the node, for the account
\* of the sender or of somebody else
SpendNext ==
    \/ \E tx \in SpendInputs(now) : PoolAddTransaction(tx)
    \/ \E a \in {"A", PeerMiner} : MineBlockBackground(a)
    \/ Tick

SpendSpec == Init /\ [][SpendNext]_vars

\* transfers between users, a transfer to the address "system" and a
\* transaction of the sender "system"
SupplyInputs(t) ==
    {Transfer("A", "B", 5, t), Transfer("A", "system", 5, t),
     SystemTx("system", "B", 5, t, Lit("mining_reward"))}

\* the pool and the mining thread with these submissions
SupplyNext ==
    \/ \E tx \in SupplyInputs(now) : PoolAddTransaction(tx)
    \/ MineBlockBackground("A")
    \/ Tick

SupplySpec == Init /\ [][SupplyNext]_vars

----------------------------------------------------------------------------
(* The node: request handlers and background mining threads, src/node.py *)

\* what clients post to /transactions
NodeTxInputs(t) ==
    {Transfer("A", "B", 5, t), SystemTx("system", "A", 5, t, Lit("mining_reward"))}

\* BlockchainNode.add_transaction: POST /transactions
HandleAddTransaction(tx) ==
    IF Has(tx, "sender") /\ tx.sender \in {"system", "genesis"}
    THEN /\ ret' = [op |-> "POST /transactions", arg |-> tx,
                    out |-> <<400, "Cannot submit system transactions">>]
         /\ UNCHANGED <<ledger, pending_transactions, mining, network, now>>
    ELSE LET o == add_transaction(tx, pending_transactions, chain, mempool)
         IN /\ pending_transactions' = o.pending
            /\ ret' = [op |-> "POST /transactions", arg |-> tx,
                       out |-> <<IF o.ok THEN 201 ELSE 400, o.message>>]
            /\ UNCHANGED <<ledger, mining, network, now>>

\* BlockchainNode.send_transaction: POST /wallet/send
HandleSendTransaction(wallet, recipient, amount) ==
    IF amount = 0
    THEN /\ ret' = [op |-> "POST /wallet/send", arg |-> <<wallet, recipient, amount>>,
                    out |-> <<400, "wallet_name, recipient, and amount required">>]
         /\ UNCHANGED <<ledger, pending_transactions, mining, network, now>>
    ELSE LET tx == create_signed_transaction(wallet, recipient, amount, now,
                                             KeyOf(wallet), KeyOf(wallet))
             o == add_transaction(tx, pending_transactions, chain, mempool)
         IN /\ pending_transactions' = o.pending
            /\ ret' = [op |-> "POST /wallet/send", arg |-> <<wallet, recipient, amount>>,
                       out |-> <<IF o.ok THEN 201 ELSE 400, o.message>>]
            /\ UNCHANGED <<ledger, mining, network, now>>

\* ui_buy_coins: POST /buy_coins
HandleBuyCoins(wallet, buy_amount) ==
    IF buy_amount <= 0
    THEN /\ ret' = [op |-> "POST /buy_coins", arg |-> <<wallet, buy_amount>>,
                    out |-> <<FALSE, "Amount must be positive.">>]
         /\ UNCHANGED <<ledger, pending_transactions, mining, network, now>>
    ELSE LET tx == SystemTx("system", wallet, buy_amount, now, Lit("SYSTEM"))
             o == add_transaction(tx, pending_transactions, chain, mempool)
         IN /\ pending_transactions' = o.pending
            /\ ret' = [op |-> "POST /buy_coins", arg |-> <<wallet, buy_amount>>,
                       out |-> <<o.ok, o.message>>]
            /\ UNCHANGED <<ledger, mining, network, now>>

IdleThreads == {t \in 1..MaxThreads : threads[t].pc = "idle"}

\* BlockchainNode.mine_block: POST /mine, answered 409 while is_mining is set,
\* and otherwise starting a background thread
HandleMine(miner_address) ==
    IF is_mining
    THEN /\ ret' = [op |-> "POST /mine", arg |-> miner_address,
                    out |-> <<409, "Already mining a block">>]
         /\ UNCHANGED <<ledger, pending_transactions, mining, network, now>>
    ELSE /\ Len(chain) < MaxChain
         /\ IdleThreads # {}
         /\ LET t == CHOOSE x \in IdleThreads : \A y \in IdleThreads : x <= y
            IN threads' = [threads EXCEPT ![t] = [pc |-> "spawned",
                                                  miner_address |-> miner_address,
                                                  new_block |-> <<>>]]
         /\ ret' = [op |-> "POST /mine", arg |-> miner_address,
                    out |-> <<202, "Mining started">>]
         /\ UNCHANGED <<ledger, pending_transactions, is_mining, mining_address,
                        network, now>>

\* _mine_block_background: the thread sets the mining flag
ThreadStart(t) ==
    /\ threads[t].pc = "spawned"
    /\ is_mining' = TRUE
    /\ mining_address' = threads[t].miner_address
    /\ threads' = [threads EXCEPT ![t].pc = "running"]
    /\ ret' = [op |-> "_mine_block_background", arg |-> t, out |-> "running"]
    /\ UNCHANGED <<ledger, pending_transactions, network, now>>

\* _mine_block_background: the batch is copied into the mempool and
\* mine_pending_transactions builds the block on the current head
ThreadPrepare(t) ==
    /\ threads[t].pc = "running"
    /\ \E p \in {PrepareBlock(chain,
                              mempool \o get_transactions_for_mining(
                                             pending_transactions, MiningBatch),
                              mining_reward, threads[t].miner_address, now)} :
          /\ mempool' = p.mempool
          /\ threads' = [threads EXCEPT ![t].pc = "mining",
                                        ![t].new_block = p.new_block]
    /\ UNCHANGED <<chain, difficulty, mining_reward, blockchain_file,
                   pending_transactions, is_mining, mining_address, network, now>>
    /\ ret' = [op |-> "_mine_block_background", arg |-> t, out |-> "mining"]

\* mine_pending_transactions: the proof of work ends, the block is appended
\* and saved, and the mempool is cut a second time
ThreadAppend(t) ==
    /\ threads[t].pc = "mining"
    /\ \E b \in {mine_block(threads[t].new_block, difficulty)} :
          /\ chain' = Append(chain, b)
          /\ blockchain_file' = Snapshot(Append(chain, b), difficulty,
                                         mining_reward, mempool)
          /\ mempool' = RemoveMined(mempool, b)
          /\ threads' = [threads EXCEPT ![t].pc = "appended", ![t].new_block = b]
    /\ ret' = [op |-> "_mine_block_background", arg |-> t, out |-> "appended"]
    /\ UNCHANGED <<difficulty, mining_reward, pending_transactions, is_mining,
                   mining_address, network, now>>

\* _mine_block_background: the mined transactions leave the pool, the block
\* is broadcast and the mining flag is cleared
ThreadFinish(t) ==
    /\ threads[t].pc = "appended"
    /\ pending_transactions' =
          remove_transactions(pending_transactions, MinedTxIds(threads[t].new_block))
    /\ is_mining' = FALSE
    /\ mining_address' = None
    /\ threads' = [threads EXCEPT ![t] = IdleThread]
    /\ ret' = [op |-> "_mine_block_background", arg |-> t, out |-> "done"]
    /\ UNCHANGED <<ledger, network, now>>

\* one turn of the loop of BlockchainNode.sync_blockchain, given what
\* replace_chain returned: the chain, the file, the length of longest_chain,
\* synced_count and the status after it
SyncStep(st, answer, o) ==
    IF o.result = "raise" THEN [st EXCEPT !.status = 500]
    ELSE IF o.result = "True"
    THEN [st EXCEPT !.chain = o.chain, !.file = o.file,
                    !.longest = Len(answer), !.synced = st.synced + 1]
    ELSE [st EXCEPT !.file = o.file]

\* the loop of BlockchainNode.sync_blockchain from peer i on
RECURSIVE SyncLoop(_, _, _, _, _, _, _)
SyncLoop(answers, i, st, d, r, m, t) ==
    IF i > Len(answers) \/ st.status # 200 THEN st
    ELSE IF answers[i] = <<>> \/ Len(answers[i]) <= st.longest
    THEN SyncLoop(answers, i + 1, st, d, r, m, t)
    ELSE SyncLoop(answers, i + 1,
                  SyncStep(st, answers[i],
                           replace_chain(st.chain, d, r, m, st.file, answers[i], t)),
                  d, r, m, t)

\* BlockchainNode.sync_blockchain: GET /sync
HandleSync(answers) ==
    \E st \in {SyncLoop(answers, 1,
                        [chain |-> chain, file |-> blockchain_file,
                         longest |-> Len(chain), synced |-> 0, status |-> 200],
                        difficulty, mining_reward, mempool, now)} :
       /\ chain' = st.chain
       /\ blockchain_file' = st.file
       /\ ret' = [op |-> "GET /sync", arg |-> answers,
                  out |-> <<st.status, st.synced, Len(st.chain)>>]
       /\ UNCHANGED <<mempool, difficulty, mining_reward, pending_transactions,
                      mining, network, now>>

\* BlockchainNode.get_chain: GET /chain
HandleGetChain ==
    /\ ret' = [op |-> "GET /chain", arg |-> <<>>,
               out |-> <<200, Len(chain), is_chain_valid(chain, difficulty)>>]
    /\ UNCHANGED <<ledger, pending_transactions, mining, network, now>>

Next ==
    \/ \E tx \in NodeTxInputs(now) : HandleAddTransaction(tx)
    \/ \E a \in {0, 5} : HandleSendTransaction("B", "A", a)
    \/ \E a \in {0, 5} : HandleBuyCoins("A", a)
    \/ \E a \in Miners : HandleMine(a)
    \/ \E t \in 1..MaxThreads : ThreadStart(t)
    \/ \E t \in 1..MaxThreads : ThreadPrepare(t)
    \/ \E t \in 1..MaxThreads : ThreadAppend(t)
    \/ \E t \in 1..MaxThreads : ThreadFinish(t)
    \/ \E answers \in [1..Len(peers) ->
                         SyncAnswers(chain, pending_transactions, difficulty,
                                     mining_reward, now)] :
          HandleSync(answers)
    \/ HandleGetChain

Spec == Init /\ [][Next]_vars

\* what clients post to /transactions when they fill in the transaction_id
\* themselves: nothing, or an empty string
ClientTxInputs(t) ==
    {Transfer("A", "B", 5, t), WithId(Transfer("A", "B", 10, t), <<"">>)}

\* the node serving POST /transactions and POST /mine only
MiningNext ==
    \/ \E tx \in ClientTxInputs(now) : HandleAddTransaction(tx)
    \/ \E a \in Miners : HandleMine(a)
    \/ \E t \in 1..MaxThreads : ThreadStart(t)
    \/ \E t \in 1..MaxThreads : ThreadPrepare(t)
    \/ \E t \in 1..MaxThreads : ThreadAppend(t)
    \/ \E t \in 1..MaxThreads : ThreadFinish(t)

MiningSpec == Init /\ [][MiningNext]_vars

\* mine_pending_transactions when save_blockchain raises (open or the write
\* fails): the block is already appended, the file is as it was or cut
\* short, the second cut of the mempool is skipped and the exception
\* reaches the except clause of _mine_block_background
ThreadSaveFails(t) ==
    /\ threads[t].pc = "mining"
    /\ \E b \in {mine_block(threads[t].new_block, difficulty)} :
          /\ chain' = Append(chain, b)
          /\ threads' = [threads EXCEPT ![t].pc = "raised", ![t].new_block = b]
    /\ blockchain_file' \in {blockchain_file, CorruptFile}
    /\ ret' = [op |-> "_mine_block_background", arg |-> t, out |-> "raised"]
    /\ UNCHANGED <<mempool, difficulty, mining_reward, pending_transactions,
                   is_mining, mining_address, network, now>>

\* _mine_block_background with the flag cleared at the end of the try block
\* only, so that an exception leaves it set
ThreadRelease_after_success_only(t) ==
    /\ threads[t].pc = "raised"
    /\ threads' = [threads EXCEPT ![t] = IdleThread]
    /\ ret' = [op |-> "_mine_block_background", arg |-> t, out |-> "error"]
    /\ UNCHANGED <<ledger, pending_transactions, is_mining, mining_address,
                   network, now>>

\* _mine_block_background after an exception: the except clause prints, the
\* finally clause clears the mining flag; the pool keeps its entries
ThreadRelease(t) ==
    /\ threads[t].pc = "raised"
    /\ is_mining' = FALSE
    /\ mining_address' = None
    /\ threads' = [threads EXCEPT ![t] = IdleThread]
    /\ ret' = [op |-> "_mine_block_background", arg |-> t, out |-> "error"]
    /\ UNCHANGED <<ledger, pending_transactions, network, now>>

\* the node serving POST /transactions and POST /mine, with mining
\* operations that may fail at the save
ReleaseNext ==
    \/ \E tx \in ClientTxInputs(now) : HandleAddTransaction(tx)
    \/ \E a \in Miners : HandleMine(a)
    \/ \E t \in 1..MaxThreads : ThreadStart(t)
    \/ \E t \in 1..MaxThreads : ThreadPrepare(t)
    \/ \E t \in 1..MaxThreads : ThreadAppend(t)
    \/ \E t \in 1..MaxThreads : ThreadSaveFails(t)
    \/ \E t \in 1..MaxThreads : ThreadFinish(t)
    \/ \E t \in 1..MaxThreads : ThreadRelease(t)

ReleaseSpec == Init /\ [][ReleaseNext]_vars

----------------------------------------------------------------------------
(* Fork choice: Blockchain.replace_chain *)

\* every block of a served chain has the six fields of a block
WellFormed(cand) == \A i \in 1..Len(cand) : BlockFields \subseteq DOMAIN cand[i]

\* the three chain rules, for every block after the first
ChainRulesHold(cand, d) ==
    \A i \in 2..Len(cand) :
       /\ cand[i].previous_hash = cand[i - 1].hash
       /\ cand[i].hash = calculate_hash(cand[i].index, cand[i].timestamp,
                            cand[i].transactions, cand[i].previous_hash, cand[i].nonce)
       /\ LeadingZeros(cand[i].hash, d)

\* C1: replace_chain returns False whenever the candidate is not strictly
\* longer than the current chain, whatever its validity; it returns False
\* whenever a longer candidate breaks a chain rule; and it returns True only
\* for a strictly longer candidate that keeps every chain rule, and then the
\* chain is exactly the candidate.
C1_ReplaceChainContract ==
    ret.op = "replace_chain" =>
       /\ (Len(ret.arg.new_chain) <= ret.arg.length_before => ret.out = "False")
       /\ (WellFormed(ret.arg.new_chain)
             /\ ~ChainRulesHold(ret.arg.new_chain, difficulty) => ret.out = "False")
       /\ (ret.out = "True" =>
             /\ Len(ret.arg.new_chain) > ret.arg.length_before
             /\ WellFormed(ret.arg.new_chain)
             /\ ChainRulesHold(ret.arg.new_chain, difficulty)
             /\ ChainDicts(chain) = ret.arg.new_chain)

\* a fork that shares only the genesis block replaced a chain of two blocks
C1_Witness ==
    /\ ret.op = "replace_chain"
    /\ ret.out = "True"
    /\ ret.arg.length_before = 2
    /\ Len(chain) = 3
    /\ chain[2].transactions[1].recipient = PeerMiner

\* C2: a replace_chain call that returns False or raises leaves the chain,
\* the mempool, the difficulty and the mining reward as they were.
C2_FailedReplaceKeepsLedger ==
    [][(ret'.op = "replace_chain" /\ ret'.out # "True") =>
          /\ chain' = chain
          /\ mempool' = mempool
          /\ difficulty' = difficulty
          /\ mining_reward' = mining_reward]_vars

\* a longer candidate with a block lacking a field was rejected by a ledger
\* that holds a mined block and a pending mempool entry
C2_Witness ==
    /\ ret.op = "replace_chain"
    /\ ret.out = "raise"
    /\ Len(ret.arg.new_chain) > Len(chain)
    /\ Len(chain) = 2
    /\ mempool # <<>>

\* a longer candidate that breaks a chain rule was rejected
C2_WitnessInvalid ==
    /\ ret.op = "replace_chain"
    /\ ret.out = "False"
    /\ Len(ret.arg.new_chain) > Len(chain)

----------------------------------------------------------------------------
(* Mining in sequence: Blockchain.mine_pending_transactions *)

\* C3: after every call of mine_pending_transactions made one after another
\* on a ledger that started from a fresh genesis block, the chain passes
\* is_chain_valid, and the appended block has a hash with `difficulty`
\* leading zero digits that equals the hash recomputed from its contents,
\* and a previous_hash equal to the hash of the former head.
C3_MinedChainValid ==
    ret.op = "mine_pending_transactions" =>
       /\ is_chain_valid(chain, difficulty)
       /\ chain[Len(chain)] = ret.out
       /\ LeadingZeros(ret.out.hash, difficulty)
       /\ ret.out.hash = BlockHash(ret.out)
       /\ ret.out.previous_hash = chain[Len(chain) - 1].hash

\* the second block mined in a row, holding a transfer and the reward
C3_Witness ==
    /\ ret.op = "mine_pending_transactions"
    /\ Len(chain) = 3
    /\ Len(ret.out.transactions) = 2
    /\ chain[2].transactions[Len(chain[2].transactions)].recipient \in Miners

----------------------------------------------------------------------------
(* Admission: TransactionValidator and TransactionPool *)

\* the positions of the pool that hold a transaction with the derived id of tx
CopiesInPool(tx) ==
    {i \in 1..Len(pending_transactions) :
       calculate_transaction_id(pending_transactions[i]) = calculate_transaction_id(tx)}

\* C4: a user transaction that add_transaction accepts is in the pool exactly
\* once; the identical transaction submitted again while the first is pending
\* is rejected, so an accepted admission never leaves two copies.
C4_AcceptedExactlyOnce ==
    (/\ ret.op = "add_transaction"
     /\ ret.out[1]
     /\ ret.arg.sender \notin {"system", "genesis"})
       => Cardinality(CopiesInPool(ret.arg)) = 1

\* the transactions of the confirmed blocks followed by those of the pool
RECURSIVE Confirmed(_)
Confirmed(c) ==
    IF c = <<>> THEN <<>>
    ELSE Confirmed(SubSeq(c, 1, Len(c) - 1)) \o c[Len(c)].transactions

ConfirmedAndPending == Confirmed(chain) \o pending_transactions

\* C5: no derived transaction id occurs twice across the confirmed blocks and
\* the pending pool taken together.  Stated for the transactions of user
\* senders, the ones the double-spend guard is applied to (the claim with
\* the reserved senders included implies this statement).
C5_NoDuplicateIds ==
    \A i, j \in 1..Len(ConfirmedAndPending) :
       (/\ i < j
        /\ ConfirmedAndPending[i].sender \notin {"system", "genesis"})
          => calculate_transaction_id(ConfirmedAndPending[i])
               # calculate_transaction_id(ConfirmedAndPending[j])

\* the threads that are executing the body of _mine_block_background
MiningThreads ==
    {t \in 1..MaxThreads : threads[t].pc \in {"running", "mining", "appended"}}

\* C6: at most one mining operation is in flight on the node at any time.
C6_OneMiningInFlight == Cardinality(MiningThreads) <= 1

\* C7: under every interleaving of mining, sync and queries the chain passes
\* is_chain_valid in every reachable state.
C7_ChainAlwaysValid == is_chain_valid(chain, difficulty)

\* the reasons of the seven checks, in the order of the policy
CheckReason ==
    <<"Missing required transaction fields",
      "Transaction amount must be positive",
      "Sender and recipient cannot be the same",
      "Invalid system transaction signature",
      "Insufficient balance",
      "Invalid transaction signature",
      "Double spending detected">>

\* check k of the policy applies to tx and tx fails it; the last three
\* checks apply to the transactions of user senders only
CheckFails(k, tx, c, m) ==
    IF k = 1 THEN ~(RequiredFields \subseteq DOMAIN tx)
    ELSE /\ RequiredFields \subseteq DOMAIN tx
         /\ CASE k = 2 -> tx.amount <= 0
              [] k = 3 -> tx.sender = tx.recipient
              [] k = 4 -> /\ tx.sender \in {"system", "genesis"}
                          /\ tx.signature \notin ReservedSignatures
              [] k = 5 -> /\ tx.sender \notin {"system", "genesis"}
                          /\ get_balance(c, tx.sender) < tx.amount
              [] k = 6 -> /\ tx.sender \notin {"system", "genesis"}
                          /\ ~validate_signature(tx)
              [] k = 7 -> /\ tx.sender \notin {"system", "genesis"}
                          /\ check_double_spending(tx, c, m)

\* C8: validate_transaction returns (False, reason) with the reason of the
\* first check that fails, in the order required fields, positive amount,
\* sender differs from recipient, reserved-sender signature, balance,
\* signature, duplicate id; it accepts only when no check fails.
C8_FirstFailingCheck ==
    ret.op = "validate_transaction" =>
       IF ret.out[1]
       THEN \A k \in 1..7 : ~CheckFails(k, ret.arg, chain, mempool)
       ELSE \E k \in 1..7 :
               /\ ret.out[2] = CheckReason[k]
               /\ CheckFails(k, ret.arg, chain, mempool)
               /\ \A j \in 1..(k - 1) : ~CheckFails(j, ret.arg, chain, mempool)

\* a transfer that passes the first six checks was refused as a duplicate of
\* a confirmed transaction
C8_Witness ==
    /\ ret.op = "validate_transaction"
    /\ ret.out = <<FALSE, "Double spending detected">>
    /\ ret.arg.sender \in Users

\* C9: a transaction of a reserved sender with a positive amount and another
\* recipient is accepted by the validator exactly when its signature is
\* "mining_reward", "genesis_signature", "SYSTEM" or empty, and the buy-coins
\* transaction signed "SYSTEM" is admitted to a pool that has room.
C9_ReservedAllowList ==
    /\ (/\ ret.op = "validate_transaction"
        /\ RequiredFields \subseteq DOMAIN ret.arg
        /\ ret.arg.sender \in {"system", "genesis"}
        /\ ret.arg.amount > 0
        /\ ret.arg.sender # ret.arg.recipient)
          => (ret.out[1] <=>
                ret.arg.signature \in {Lit("mining_reward"), Lit("genesis_signature"),
                                       Lit("SYSTEM"), Lit("")})
    /\ (/\ ret.op = "add_transaction"
        /\ ret.arg.sender = "system"
        /\ ret.arg.signature = Lit("SYSTEM")
        /\ ret.arg.amount > 0
        /\ ret.arg.sender # ret.arg.recipient
        /\ ret.out[2] # "Transaction pool is full")
          => ret.out[1]

\* C10: a rejected add_transaction leaves the pending sequence as it was,
\* and a transaction with all fields and an amount of zero or less is
\* rejected with the positive-amount reason.
C10_RejectedKeepsPool ==
    [][(ret'.op = "add_transaction" /\ ~ret'.out[1]) =>
          /\ pending_transactions' = pending_transactions
          /\ (RequiredFields \subseteq DOMAIN ret'.arg /\ ret'.arg.amount <= 0
                => ret'.out[2] = "Transaction amount must be positive")]_vars

\* a transfer of amount zero was refused by an empty pool
C10_Witness ==
    /\ ret.op = "add_transaction"
    /\ ret.out = <<FALSE, "Transaction amount must be positive">>
    /\ ret.arg.amount = 0
    /\ pending_transactions = <<>>

----------------------------------------------------------------------------
(* Pool capacity *)

\* tx as the pool stores it: the same fields, and the derived id when tx
\* carried no transaction_id
Stored(tx) ==
    [f \in DOMAIN tx \cup {"transaction_id"} |->
        IF f \in DOMAIN tx THEN tx[f]
        ELSE <<tx.sender, tx.recipient, tx.amount, tx.timestamp>>]

\* C11: the pool never holds more than max_pool_size entries; a valid
\* transaction offered to a pool at capacity is rejected with the pool-full
\* reason and the pool stays as it was, entry for entry; a valid transaction
\* offered to a pool below capacity is appended at the tail, with its derived
\* id assigned when it carried none.
C11_PoolCapacity ==
    [][/\ Len(pending_transactions') <= MaxPool
       /\ (ret'.op = "add_transaction"
             /\ validate_transaction(ret'.arg, chain, mempool)[1]) =>
            IF Len(pending_transactions) >= MaxPool
            THEN /\ ret'.out = <<FALSE, "Transaction pool is full">>
                 /\ pending_transactions' = pending_transactions
            ELSE /\ ret'.out[1]
                 /\ pending_transactions'
                      = Append(pending_transactions, Stored(ret'.arg))]_vars

\* a valid transaction was refused by a pool holding max_pool_size entries
C11_Witness ==
    /\ ret.op = "add_transaction"
    /\ ret.out = <<FALSE, "Transaction pool is full">>
    /\ Len(pending_transactions) = MaxPool
    /\ ret.arg.sender \in Users

----------------------------------------------------------------------------
(* The mempool after mining *)

\* C12: after mine_pending_transactions the mempool is the prior mempool
\* without the transactions of the mined block: every pending transaction
\* that is not in the block is still pending, in its original order.
C12_MempoolKeepsTheRest ==
    [][(ret'.op = "mine_pending_transactions" /\ chain' # chain) =>
          LET mined(tx) == \E i \in 1..Len(ret'.out.transactions) :
                              ret'.out.transactions[i] = tx
              left(tx) == ~mined(tx)
          IN mempool' = SelectSeq(mempool, left)]_vars

----------------------------------------------------------------------------
(* The pool after a mining operation of the node *)

\* the mined block holds a transaction with the derived id of tx
InBlock(tx, b) ==
    \E i \in 1..Len(b.transactions) :
       calculate_transaction_id(b.transactions[i]) = calculate_transaction_id(tx)

\* C13: when a background mining operation of the node completes, the pool
\* holds exactly the entries that were pending, those admitted during the
\* mining included, that are not in the mined block, in their order; the
\* earlier steps of the operation remove nothing from the pool.
C13_PoolKeepsUnmined ==
    [][ret'.op = "_mine_block_background" =>
          IF ret'.out = "done"
          THEN LET unmined(tx) == ~InBlock(tx, threads[ret'.arg].new_block)
               IN pending_transactions' = SelectSeq(pending_transactions, unmined)
          ELSE pending_transactions' = pending_transactions]_vars

----------------------------------------------------------------------------
(* The contents of a mined block *)

\* C14: the block mine_pending_transactions produces holds the oldest
\* pending entries, at most 10 of them, in the order they were added,
\* followed by one reward transaction from "system" to the miner address
\* with the mining reward as amount; no other transaction of the block is a
\* reward.
C14_BlockIsOldestThenReward ==
    [][(ret'.op = "mine_pending_transactions" /\ chain' # chain) =>
          LET txs == ret'.out.transactions
              n == Len(txs) - 1
          IN /\ n = (IF Len(mempool) < 10 THEN Len(mempool) ELSE 10)
             /\ \A i \in 1..n : txs[i] = mempool[i]
             /\ \A i \in 1..n : txs[i].sender # "system"
             /\ txs[n + 1].sender = "system"
             /\ txs[n + 1].recipient = ret'.arg
             /\ txs[n + 1].amount = mining_reward]_vars

\* a block was mined from a backlog of more than ten entries
C14_Witness ==
    /\ ret.op = "mine_pending_transactions"
    /\ Len(ret.out.transactions) = 11
    /\ ret.out.transactions[1].amount = 1
    /\ ret.out.transactions[10].amount = 10

----------------------------------------------------------------------------
(* Balances *)

\* the positions <<block, transaction>> of the confirmed transactions
Positions(c) ==
    UNION {{<<i, j>> : j \in 1..Len(c[i].transactions)} : i \in 1..Len(c)}

TxAt(c, p) == c[p[1]].transactions[p[2]]

\* the sum of the amounts at a set of positions
RECURSIVE SumAt(_, _)
SumAt(c, S) ==
    IF S = {} THEN 0
    ELSE LET p == CHOOSE x \in S : TRUE
         IN TxAt(c, p).amount + SumAt(c, S \ {p})

\* the chain with the transactions at positions p and q exchanged
SwapTx(c, p, q) ==
    [i \in 1..Len(c) |->
       [c[i] EXCEPT !.transactions =
          [j \in 1..Len(c[i].transactions) |->
             IF <<i, j>> = p THEN TxAt(c, q)
             ELSE IF <<i, j>> = q THEN TxAt(c, p)
             ELSE c[i].transactions[j]]]]

----------------------------------------------------------------------------
(* Synchronisation with peers *)

\* the peers whose answer is a chain that keeps every chain rule
ValidAnswers(answers, d) ==
    {i \in DOMAIN answers :
       /\ answers[i] # <<>>
       /\ WellFormed(answers[i])
       /\ ChainRulesHold(answers[i], d)}

\* C16: after one sync pass in which every peer answered, the local chain is
\* either the chain the node had or, block for block, the chain of one peer
\* whose chain is valid; it is at least as long as the chain the node had
\* and as every valid peer chain, whatever invalid chains other peers
\* served; and the node keeps its own chain when no peer chain is longer.
C16_SyncAdoptsLongestValid ==
    [][(ret'.op = "GET /sync" /\ \A i \in DOMAIN ret'.arg : ret'.arg[i] # <<>>) =>
          LET valid == ValidAnswers(ret'.arg, difficulty)
          IN /\ \/ chain' = chain
                \/ \E i \in valid : ChainDicts(chain') = ret'.arg[i]
             /\ Len(chain') >= Len(chain)
             /\ \A i \in valid : Len(chain') >= Len(ret'.arg[i])
             /\ ((\A i \in DOMAIN ret'.arg : Len(ret'.arg[i]) <= Len(chain))
                   => chain' = chain)]_vars

\* the same for passes in which every served chain has all block fields
C16_WellFormedOnly ==
    [][(ret'.op = "GET /sync"
          /\ \A i \in DOMAIN ret'.arg : ret'.arg[i] # <<>> /\ WellFormed(ret'.arg[i])) =>
          LET valid == ValidAnswers(ret'.arg, difficulty)
          IN /\ \/ chain' = chain
                \/ \E i \in valid : ChainDicts(chain') = ret'.arg[i]
             /\ Len(chain') >= Len(chain)
             /\ \A i \in valid : Len(chain') >= Len(ret'.arg[i])
             /\ ((\A i \in DOMAIN ret'.arg : Len(ret'.arg[i]) <= Len(chain))
                   => chain' = chain)]_vars

----------------------------------------------------------------------------
(* Persistence: RestartSpec *)

\* the snapshot is one save_blockchain wrote and nothing damaged since
Intact(file) ==
    /\ file.kind = "json"
    /\ Has(file, "chain")
    /\ ~SnapshotRaises(file)

\* C17: a block serialised with to_dict and rebuilt with from_dict has the
\* same index, timestamp, transactions, previous_hash, nonce and hash; a
\* start from an undamaged snapshot yields a ledger whose save is that very
\* snapshot (load followed by save changes nothing), and when the snapshot
\* is the save of the ledger that was running, the started ledger has the
\* same blocks, difficulty, mining reward and mempool.
C17_SaveLoadRoundTrip ==
    [][(ret'.op = "load_blockchain" /\ Intact(blockchain_file)) =>
          /\ ret'.out = "ok"
          /\ \A i \in 1..Len(chain') :
                /\ ~from_dict_raises(to_dict(chain'[i]))
                /\ from_dict(to_dict(chain'[i])) = chain'[i]
          /\ blockchain_file' = blockchain_file
          /\ Snapshot(chain', difficulty', mining_reward', mempool') = blockchain_file
          /\ (blockchain_file = Snapshot(chain, difficulty, mining_reward, mempool)
                => /\ chain' = chain
                   /\ difficulty' = difficulty
                   /\ mining_reward' = mining_reward
                   /\ mempool' = mempool)]_vars

\* a ledger of three blocks with a waiting transaction has just been started
\* from its snapshot
C17_Witness ==
    /\ ret.op = "load_blockchain"
    /\ ret.out = "ok"
    /\ Intact(ret.arg)
    /\ Len(chain) = MaxChain
    /\ mempool # <<>>
    /\ blockchain_file = Snapshot(chain, difficulty, mining_reward, mempool)

\* C18: a start never fails; without a snapshot the chain is one freshly
\* mined genesis block and the snapshot is written at once; with a snapshot
\* that cannot be parsed or lacks a required field the chain is likewise
\* exactly one genesis block.
C18_LoadNeverFails ==
    ret.op = "load_blockchain" =>
        /\ ret.out = "ok"
        /\ ~Intact(ret.arg) =>
              /\ chain = <<create_genesis_block(Difficulty, now)>>
              /\ mempool = <<>>
        /\ ret.arg.kind = "absent" =>
              blockchain_file = Snapshot(chain, difficulty, mining_reward, mempool)

\* the start from a snapshot with a missing field or unparsable JSON text,
\* which the code does handle
C18_CaughtOnly ==
    (ret.op = "load_blockchain" /\ ~load_blockchain_raises(ret.arg)) =>
        /\ ret.out = "ok"
        /\ ~Intact(ret.arg) =>
              /\ chain = <<create_genesis_block(Difficulty, now)>>
              /\ mempool = <<>>
        /\ ret.arg.kind = "absent" =>
              blockchain_file = Snapshot(chain, difficulty, mining_reward, mempool)

----------------------------------------------------------------------------
(* Peer eviction: PeerSpec *)

\* the peer is in the set, disconnected, has failed three times in a row and
\* was last seen more than 300 seconds before t
Overdue(ps, id, t) ==
    /\ id \in DOMAIN ps
    /\ ~ps[id].is_connected
    /\ ps[id].connection_attempts >= 3
    /\ t - ps[id].last_seen > 300

\* C19: a maintenance pass is the ping/reconnect step followed by the
\* cleanup step; a disconnected peer with 3 failed attempts and a last
\* contact more than 300 seconds old is left as it is by the ping/reconnect
\* step (it is not retried) and is absent from the peer set after the
\* cleanup step.
C19_OverduePeerEvicted ==
    [][\A id \in PeerIds :
          Overdue(p2p.peers, id, now) =>
             /\ (p2p.discovery = "sleep" /\ p2p'.discovery = "pinged") =>
                   /\ ret'.op = "_ping_all_peers"
                   /\ id \notin ret'.out
                   /\ Overdue(p2p'.peers, id, now')
             /\ (p2p.discovery = "pinged" /\ p2p'.discovery = "sleep") =>
                   /\ ret'.op = "_cleanup_dead_peers"
                   /\ id \in ret'.out
                   /\ id \notin DOMAIN p2p'.peers
             /\ ret'.op = "_cleanup_dead_peers" /\ ret' # ret =>
                   p2p.discovery = "pinged"]_vars

\* scenario D: 301 seconds after the start a cleanup step has just removed a
\* peer while the other peer is still in the set
C19_Witness ==
    /\ ret.op = "_cleanup_dead_peers"
    /\ ret.out # {}
    /\ now = 301
    /\ DOMAIN p2p.peers # {}

\* C20: whatever step removes a peer from the set, the peer was
\* disconnected, had at least 3 failed attempts and had been silent for
\* more than 300 seconds; the maintenance pass tries to connect only to
\* peers of the set, and a peer outside the set enters it only through
\* add_peer.
C20_EvictionOnlyWhenOverdue ==
    [][/\ \A id \in DOMAIN p2p.peers :
             id \notin DOMAIN p2p'.peers =>
                /\ ~p2p.peers[id].is_connected
                /\ p2p.peers[id].connection_attempts >= 3
                /\ now - p2p.peers[id].last_seen > 300
       /\ (p2p.discovery = "sleep" /\ p2p'.discovery = "pinged") =>
             ret'.out \subseteq DOMAIN p2p.peers
       /\ \A id \in DOMAIN p2p'.peers :
             id \notin DOMAIN p2p.peers =>
                /\ ret'.op \in {"add_peer", "_handle_peer_list"}
                /\ ret'.arg = id]_vars

\* a cleanup step has removed one peer and kept another that is
\* disconnected with 3 failed attempts and was last seen exactly 300
\* seconds ago
C20_Witness ==
    /\ ret.op = "_cleanup_dead_peers"
    /\ ret.out # {}
    /\ \E id \in DOMAIN p2p.peers :
          /\ ~p2p.peers[id].is_connected
          /\ p2p.peers[id].connection_attempts = 3
          /\ now - p2p.peers[id].last_seen = 300

----------------------------------------------------------------------------
(* Reconnection attempts: PeerRaceSpec *)

\* C21: the reconnect step of the maintenance pass tries exactly the
\* disconnected peers with fewer than 3 consecutive failures; an attempt
\* leaves the counter at 0 (connected) or one higher (failed); and no peer
\* of the set ever has a counter above 3, add_peer running alongside the
\* maintenance pass included.
C21_AttemptsAtMostThree ==
    [][/\ (p2p.discovery = "sleep" /\ p2p'.discovery = "pinged") =>
             /\ ret'.out = {id \in DOMAIN p2p.peers :
                               /\ ~p2p.peers[id].is_connected
                               /\ p2p.peers[id].connection_attempts < 3}
             /\ \A id \in ret'.out :
                   \/ /\ p2p'.peers[id].connection_attempts = 0
                      /\ p2p'.peers[id].last_seen = now
                   \/ /\ p2p'.peers[id].connection_attempts
                            = p2p.peers[id].connection_attempts + 1
                      /\ ~p2p'.peers[id].is_connected
             /\ \A id \in DOMAIN p2p.peers \ ret'.out :
                   p2p'.peers[id].connection_attempts
                      = p2p.peers[id].connection_attempts
       /\ \A id \in DOMAIN p2p'.peers :
             p2p'.peers[id].connection_attempts <= 3]_vars

----------------------------------------------------------------------------
(* The node's own id: NodePeersSpec *)

\* C22: the node's own id is in neither of its peer sets, whatever was
\* called
C22_OwnIdNeverAPeer ==
    /\ NodeId \notin DOMAIN p2p.peers
    /\ ~InList(NodeId, peers)

\* C22, the calls alone: every call that adds peers rejects the own id and
\* adds nothing that makes the own id a member
C22_AddPathsRejectOwnId ==
    [][/\ (ret'.op \in {"add_peer", "_handle_peer_list"} /\ ret'.arg = NodeId) =>
             /\ p2p'.peers = p2p.peers
             /\ ret'.op = "add_peer" => ret'.out = FALSE
       /\ (ret'.op = "POST /peers" /\ ret'.arg = NodeId) =>
             /\ peers' = peers
             /\ ret'.out # 201
       /\ NodeId \notin DOMAIN p2p'.peers
       /\ ~InList(NodeId, peers) => ~InList(NodeId, peers')]_vars

----------------------------------------------------------------------------
(* Broadcast: PeerSpec *)

\* C23: a broadcast sends to exactly the peers that are connected when it
\* starts, once each; the peers whose send fails, and only those, become
\* disconnected; nothing else about any peer changes; and the returned
\* count is the number of sends that succeeded.
C23_BroadcastBestEffort ==
    [][(ret'.op = "broadcast_message" /\ ret' # ret) =>
          LET connected == {id \in DOMAIN p2p.peers : p2p.peers[id].is_connected}
              sends == ret'.arg
              delivered == {id \in connected : p2p'.peers[id].is_connected}
          IN /\ {sends[i] : i \in 1..Len(sends)} = connected
             /\ Len(sends) = Cardinality(connected)
             /\ ret'.out = Cardinality(delivered)
             /\ DOMAIN p2p'.peers = DOMAIN p2p.peers
             /\ \A id \in DOMAIN p2p.peers :
                   /\ id \notin connected => p2p'.peers[id] = p2p.peers[id]
                   /\ p2p'.peers[id].last_seen = p2p.peers[id].last_seen
                   /\ p2p'.peers[id].connection_attempts
                         = p2p.peers[id].connection_attempts]_vars

\* a broadcast to two connected peers has failed for one and reached the
\* other
C23_Witness ==
    /\ ret.op = "broadcast_message"
    /\ Len(ret.arg) = 2
    /\ ret.out = 1
    /\ \E id \in DOMAIN p2p.peers : ~p2p.peers[id].is_connected

----------------------------------------------------------------------------
(* Message dispatch: MessageSpec and MessageFairSpec *)

\* the message with this sender and timestamp waits in the queue
InQueue(sender_id, k) ==
    \E i \in 1..Len(p2p.message_queue) :
       /\ p2p.message_queue[i].sender_id = sender_id
       /\ p2p.message_queue[i].timestamp = k

\* every step leaves the queue alone, puts one message at its end, or takes
\* the message at its head, which is the one handed to the handler; and the
\* messages of one peer wait in the order in which that peer sent them
QueueInOrder ==
    [][/\ \/ p2p'.message_queue = p2p.message_queue
          \/ \E c \in ConnIds :
                /\ ret'.op = "recv"
                /\ ret'.arg[1] = c
                /\ Len(p2p'.message_queue) = Len(p2p.message_queue) + 1
                /\ SubSeq(p2p'.message_queue, 1, Len(p2p.message_queue))
                      = p2p.message_queue
                /\ p2p'.message_queue[Len(p2p'.message_queue)].sender_id = PeerOf(c)
          \/ /\ p2p.message_queue # <<>>
             /\ ret'.op = "_process_messages"
             /\ ret'.arg = Head(p2p.message_queue)
             /\ p2p'.message_queue = Tail(p2p.message_queue)
       /\ \A i, j \in 1..Len(p2p'.message_queue) :
             (i < j /\ p2p'.message_queue[i].sender_id = p2p'.message_queue[j].sender_id)
                => p2p'.message_queue[i].timestamp < p2p'.message_queue[j].timestamp]_vars

\* C24 as stated: messages are dispatched in the order in which they were
\* enqueued, those of one peer in their receive order, and every message
\* enqueued while the network is running eventually leaves the queue for its
\* handler or is dropped.
C24_EveryMessageDispatched ==
    /\ QueueInOrder
    /\ \A c \in ConnIds, k \in 1..MaxSent :
          (InQueue(PeerOf(c), k) /\ p2p.is_running) ~> ~InQueue(PeerOf(c), k)

\* C24 amended: messages are dispatched in the order in which they were
\* enqueued, those of one peer in their receive order, and every message
\* enqueued while the network is running eventually leaves the queue for its
\* handler or is dropped, unless the network is stopped while it waits.
C24_DispatchedUnlessStopped ==
    /\ QueueInOrder
    /\ \A c \in ConnIds, k \in 1..MaxSent :
          (InQueue(PeerOf(c), k) /\ p2p.is_running)
             ~> (~InQueue(PeerOf(c), k) \/ ~p2p.is_running)

\* the second message of a peer has just been handled, after its first,
\* while a message of the other peer still waits
C24_Witness ==
    /\ p2p.is_running
    /\ ret.op = "_process_messages"
    /\ ret.arg.sender_id = PeerOf("c1")
    /\ ret.arg.timestamp = 2
    /\ p2p.readers["c1"].sent = 2
    /\ InQueue(PeerOf("c2"), 1)

\* C25: a message without a registered handler, or whose handler raises, is
\* dropped: the consumer goes on (it waits for the next message as long as
\* the network runs), the rest of the queue is as it was, and the peer set
\* is unchanged.
C25_FailedMessageDropped ==
    [][(ret'.op = "_process_messages" /\ p2p'.message_queue # p2p.message_queue
          /\ ret'.out.result \in {"no handler", "raised"}) =>
          /\ p2p.is_running => p2p'.consumer = "waiting"
          /\ p2p'.message_queue = Tail(p2p.message_queue)
          /\ p2p'.readers = p2p.readers
          /\ p2p'.peers = p2p.peers]_vars

\* C25 without the peer set of a raising handler: the consumer goes on and
\* the queue keeps the later messages in both cases, and a message without
\* a handler changes no peer
C25_ConsumerSurvives ==
    [][(ret'.op = "_process_messages" /\ p2p'.message_queue # p2p.message_queue
          /\ ret'.out.result \in {"no handler", "raised"}) =>
          /\ p2p.is_running => p2p'.consumer = "waiting"
          /\ p2p'.message_queue = Tail(p2p.message_queue)
          /\ p2p'.readers = p2p.readers
          /\ ret'.out.result = "no handler" => p2p'.peers = p2p.peers]_vars

\* the transmission is no decodable JSON or lacks a field of the envelope
MalformedEnvelope(data) ==
    \/ data.kind \in {"not_json", "not_text"}
    \/ data.kind = "json" /\ ~({"type", "data", "sender_id", "timestamp"}
                                \subseteq DOMAIN data.value)

\* C26: a malformed envelope read from a connection enqueues nothing and
\* leaves the connection open and read from (as long as the network runs),
\* so that the next well-formed message on it is enqueued.
C26_MalformedEnvelopeDropped ==
    [][\A c \in ConnIds :
          (ret'.op = "recv" /\ ret'.arg[1] = c
             /\ p2p'.readers[c].sent = p2p.readers[c].sent + 1
             /\ MalformedEnvelope(ret'.arg[2])) =>
             /\ p2p'.message_queue = p2p.message_queue
             /\ p2p.is_running =>
                   /\ p2p'.readers[c].state = "reading"
                   /\ ret'.out = "dropped"]_vars

\* C26 for undecodable JSON text only
C26_NotJsonDropped ==
    [][\A c \in ConnIds :
          (ret'.op = "recv" /\ ret'.arg[1] = c
             /\ p2p'.readers[c].sent = p2p.readers[c].sent + 1
             /\ ret'.arg[2].kind = "not_json") =>
             /\ p2p'.message_queue = p2p.message_queue
             /\ p2p.is_running =>
                   /\ p2p'.readers[c].state = "reading"
                   /\ ret'.out = "dropped"]_vars

\* C27: no message handled by the consumer makes it connect or send to a
\* peer.
C27_ConsumerNeverConnects ==
    ret.op = "_process_messages" => ret.out.connects = {}

\* stop() has been called on a network that was running
Stopped == ~p2p.is_running /\ p2p.consumer # "off"

\* C28: once stop() has been called, the listening socket and every peer
\* connection, outbound and inbound, are closed, and the accept loop, every
\* reader loop, the consumer and the maintenance loop eventually end
\* without anything more arriving from peers.
C28_StopEndsEverything ==
    /\ [](Stopped =>
            /\ p2p.server_socket = "closed"
            /\ \A id \in DOMAIN p2p.peers : p2p.peers[id].socket_connection # "open"
            /\ \A c \in ConnIds : p2p.readers[c].state # "reading")
    /\ Stopped ~> (/\ p2p.accept_loop = "exited"
                   /\ p2p.consumer = "exited"
                   /\ p2p.discovery = "exited"
                   /\ \A c \in ConnIds : p2p.readers[c].state # "reading")

\* C28, the part stop() does bring about: when stop() returns the
\* listening socket and the outbound connections are closed, and the
\* consumer and the maintenance loop end afterwards
C28_WhatStopEnds ==
    /\ [](ret.op = "stop" =>
            /\ p2p.server_socket = "closed"
            /\ \A id \in DOMAIN p2p.peers : p2p.peers[id].socket_connection # "open")
    /\ Stopped ~> (p2p.consumer = "exited" /\ p2p.discovery = "exited")


\* the first position (from 2 on) where a chain breaks a chain rule, or 0
RECURSIVE FirstViolation(_, _, _)
FirstViolation(c, d, n) ==
    IF n > Len(c) THEN 0
    ELSE IF \/ c[n].previous_hash # c[n - 1].hash
            \/ c[n].hash # calculate_hash(c[n].index, c[n].timestamp,
                              c[n].transactions, c[n].previous_hash, c[n].nonce)
            \/ ~LeadingZeros(c[n].hash, d)
         THEN n
         ELSE FirstViolation(c, d, n + 1)

\* C29: is_chain_valid answers with a boolean, never an exception; the
\* answer is True exactly when every block after the genesis block links to
\* the stored hash of its predecessor, stores the hash recomputed from its
\* fields and has `difficulty` leading zero digits; what follows the first
\* violation does not matter; a chain of the genesis block alone is valid.
C29_ValidExactlyWhenRulesHold ==
    ret.op = "is_chain_valid" =>
       /\ ret.out \in BOOLEAN
       /\ ret.out = (FirstViolation(ret.arg, difficulty, 2) = 0)
       /\ ret.out = (\A n \in 2..Len(ret.arg) :
                        /\ ret.arg[n].previous_hash = ret.arg[n - 1].hash
                        /\ ret.arg[n].hash = BlockHash(ret.arg[n])
                        /\ LeadingZeros(ret.arg[n].hash, difficulty))
       /\ (Len(ret.arg) = 1 => ret.out)
       /\ ret.arg = chain

\* a loaded chain of three blocks whose second block stores a wrong hash,
\* with correct links, is reported invalid
C29_Witness ==
    /\ ret.op = "is_chain_valid"
    /\ ret.out = FALSE
    /\ Len(ret.arg) = 3
    /\ ret.arg[2].hash # BlockHash(ret.arg[2])
    /\ ret.arg[2].previous_hash = ret.arg[1].hash
    /\ ret.arg[3].previous_hash = ret.arg[2].hash
    /\ ret.arg[3].hash = BlockHash(ret.arg[3])


\* thread t enters the proof-of-work search in this step
StartsProofOfWork(t) ==
    threads[t].pc = "running" /\ threads'[t].pc = "mining"

\* C30: while mine_pending_transactions has not finished its proof-of-work
\* search the ledger is as it was: up to the start of the search the chain
\* and the snapshot are unchanged and every pending entry, the batch handed
\* over by the node included, is still in the mempool.
C30_NoLedgerChangeBeforeProof ==
    [][\A t \in 1..MaxThreads :
          StartsProofOfWork(t) =>
             /\ chain' = chain
             /\ blockchain_file' = blockchain_file
             /\ mempool' = mempool \o get_transactions_for_mining(
                                         pending_transactions, MiningBatch)]_vars

\* the chain and the snapshot change only in the step that ends a proof-of-work
\* search, which appends the mined block and saves the ledger with it
C30_ChainChangesOnlyAtAppend ==
    [][(chain' # chain \/ blockchain_file' # blockchain_file) =>
          \E t \in 1..MaxThreads :
             /\ threads[t].pc = "mining" /\ threads'[t].pc = "appended"
             /\ chain' = Append(chain, threads'[t].new_block)
             /\ LeadingZeros(threads'[t].new_block.hash, difficulty)
             /\ Has(blockchain_file', "chain")
             /\ blockchain_file'.chain = ChainDicts(chain')]_vars


\* C31: the chain never gets shorter; a completed mining operation makes it
\* longer by exactly the mined block, a successful replace_chain makes it
\* strictly longer, and no other operation (admission, removal, purge,
\* failed replacement) changes its length.
C31_LengthOnlyGrows ==
    [][/\ Len(chain') >= Len(chain)
       /\ (ret' # ret /\ ret'.op = "mine_block_background"
             => chain' = Append(chain, ret'.out))
       /\ (ret' # ret /\ ret'.op = "replace_chain" /\ ret'.out = "True"
             => Len(chain') > Len(chain))
       /\ (Len(chain') # Len(chain)
             => /\ ret' # ret
                /\ \/ ret'.op = "mine_block_background"
                   \/ ret'.op = "replace_chain" /\ ret'.out = "True")]_vars

\* a fork two blocks longer than the chain replaced it
C31_Witness ==
    /\ ret.op = "replace_chain"
    /\ ret.out = "True"
    /\ Len(chain) = ret.arg.length_before + 2


\* C32: a replace_chain call that does not replace the chain leaves the
\* snapshot file exactly as it was, and the verdict on a well-formed longer
\* candidate is True exactly when the candidate keeps the chain rules at the
\* ledger's own difficulty, whatever the snapshot file holds.
C32_ValidationHasNoSideEffect ==
    [][(ret' # ret /\ ret'.op = "replace_chain") =>
          /\ (ret'.out # "True" => blockchain_file' = blockchain_file)
          /\ (Len(ret'.arg.new_chain) > Len(chain) /\ WellFormed(ret'.arg.new_chain)
                => ret'.out = IF ChainRulesHold(ret'.arg.new_chain, difficulty)
                              THEN "True" ELSE "False")]_vars

\* as long as the snapshot file is the one the ledger wrote last, a failed
\* replacement leaves the file alone and the verdict follows the chain rules
\* at the ledger's difficulty
C32_PureWhileFileIsOwn ==
    [][(ret' # ret /\ ret'.op = "replace_chain"
          /\ blockchain_file.kind = "json" /\ Has(blockchain_file, "chain")
          /\ blockchain_file.chain = ChainDicts(chain)
          /\ blockchain_file.difficulty = difficulty) =>
          /\ (ret'.out # "True" => blockchain_file' = blockchain_file)
          /\ (Len(ret'.arg.new_chain) > Len(chain) /\ WellFormed(ret'.arg.new_chain)
                => ret'.out = IF ChainRulesHold(ret'.arg.new_chain, difficulty)
                              THEN "True" ELSE "False")]_vars


\* the entries of s at the positions in keep, in their order
RECURSIVE Restrict(_, _)
Restrict(s, keep) ==
    IF s = <<>> THEN <<>>
    ELSE Restrict(SubSeq(s, 1, Len(s) - 1), keep)
         \o (IF Len(s) \in keep THEN <<s[Len(s)]>> ELSE <<>>)

\* tx is in a block of the chain: same sender, recipient, amount, timestamp
IsConfirmed(tx, c) ==
    \E i \in 1..Len(c) : InBlock(tx, c[i])

\* the purge steps of the pool
PurgeStep == ret'.op = "clear_invalid_transactions"

\* C33: after clear_invalid_transactions every remaining entry passes
\* validate_transaction on the current ledger, the kept entries are the
\* former entries at some positions in their order, the returned count is
\* the number of entries dropped, a pending entry that is confirmed in the
\* chain or whose (user) sender cannot pay its amount is gone, and a second
\* purge would drop nothing.
C33_PurgeLeavesValidOnly ==
    [][PurgeStep =>
          /\ \A i \in 1..Len(pending_transactions') :
                validate_transaction(pending_transactions'[i], chain', mempool')[1]
          /\ \E keep \in SUBSET (1..Len(pending_transactions)) :
                pending_transactions' = Restrict(pending_transactions, keep)
          /\ ret'.out = Len(pending_transactions) - Len(pending_transactions')
          /\ \A i \in 1..Len(pending_transactions') :
                /\ ~IsConfirmed(pending_transactions'[i], chain')
                /\ pending_transactions'[i].sender \notin {"system", "genesis"}
                      => get_balance(chain', pending_transactions'[i].sender)
                            >= pending_transactions'[i].amount
          /\ clear_invalid_transactions(pending_transactions', chain', mempool')
                = pending_transactions']_vars

\* the same with the last two parts asked of the entries of user senders
\* only, and with the entries that pass validation all kept
C33_PurgeOfUserEntries ==
    [][PurgeStep =>
          /\ \A i \in 1..Len(pending_transactions') :
                validate_transaction(pending_transactions'[i], chain', mempool')[1]
          /\ \E keep \in SUBSET (1..Len(pending_transactions)) :
                /\ pending_transactions' = Restrict(pending_transactions, keep)
                /\ \A i \in 1..Len(pending_transactions) :
                      validate_transaction(pending_transactions[i], chain, mempool)[1]
                         => i \in keep
          /\ ret'.out = Len(pending_transactions) - Len(pending_transactions')
          /\ \A i \in 1..Len(pending_transactions') :
                pending_transactions'[i].sender \notin {"system", "genesis"} =>
                   /\ ~IsConfirmed(pending_transactions'[i], chain')
                   /\ get_balance(chain', pending_transactions'[i].sender)
                         >= pending_transactions'[i].amount
          /\ clear_invalid_transactions(pending_transactions', chain', mempool')
                = pending_transactions']_vars


\* a call of _connect_to_peer has returned in this step
ConnectStep == ret' # ret /\ ret'.op = "_connect_to_peer"

\* C34: when the connect of _connect_to_peer succeeds the peer is connected
\* afterwards, its counter of failed attempts is 0, its last-seen time is the
\* current time and the first message sent to it is a PING; when the connect
\* fails the peer is disconnected, its counter is one higher than before
\* and nothing was sent.
C34_ConnectOutcome ==
    [][ConnectStep =>
          LET before == ret'.arg.peer
              after == p2p'.peers[ret'.arg.peer_id]
          IN IF ret'.out.returned
             THEN /\ after.is_connected
                  /\ after.connection_attempts = 0
                  /\ after.last_seen = now
                  /\ ret'.out.sent # <<>>
                  /\ Head(ret'.out.sent) = "ping"
             ELSE /\ ~after.is_connected
                  /\ after.connection_attempts = before.connection_attempts + 1
                  /\ ret'.out.sent = <<>>]_vars

\* C34 as the code keeps it: after a successful connect the counter is 0
\* and the last-seen time is the current time; the PING is the only message
\* of the call, and the peer is connected afterwards exactly when that PING
\* went out (a PING that cannot be sent marks the peer disconnected again).
\* After a failed connect the peer is disconnected, its counter is one
\* higher, its last-seen time is as before and nothing was sent.  No other
\* peer is touched.
C34_ConnectOutcomeUnlessPingFails ==
    [][ConnectStep =>
          LET before == ret'.arg.peer
              after == p2p'.peers[ret'.arg.peer_id]
          IN /\ IF ret'.out.returned
                THEN /\ after.connection_attempts = 0
                     /\ after.last_seen = now
                     /\ ret'.out.sent \in {<<>>, <<"ping">>}
                     /\ after.is_connected <=> ret'.out.sent = <<"ping">>
                ELSE /\ ~after.is_connected
                     /\ after.connection_attempts = before.connection_attempts + 1
                     /\ after.last_seen = before.last_seen
                     /\ ret'.out.sent = <<>>
             /\ DOMAIN p2p'.peers = DOMAIN p2p.peers
             /\ \A x \in DOMAIN p2p.peers \ {ret'.arg.peer_id} :
                   p2p'.peers[x] = p2p.peers[x]]_vars

\* a peer that had failed twice was reconnected later on and got its PING
C34_Witness ==
    /\ ret.op = "_connect_to_peer"
    /\ ret.arg.peer.connection_attempts = 2
    /\ ret.arg.peer.last_seen < now
    /\ ret.out.returned
    /\ ret.out.sent = <<"ping">>
    /\ p2p.peers[ret.arg.peer_id].is_connected
    /\ p2p.peers[ret.arg.peer_id].connection_attempts = 0
    /\ p2p.peers[ret.arg.peer_id].last_seen = now


\* C35: the chain is never empty, the block at position i (counted from 0)
\* has index i, and the first block has the root value as previous_hash.
C35_ChainShape ==
    /\ chain # <<>>
    /\ \A i \in 1..Len(chain) : chain[i].index = i - 1
    /\ chain[1].previous_hash = RootHash


\* the addresses that are not reserved senders
UserAddresses == {"A", "B", PeerMiner}

\* C36: the balance derived from the chain is never negative for a user
\* address.
C36_NoNegativeBalance ==
    \A a \in UserAddresses : get_balance(chain, a) >= 0


ReservedAddresses == {"system", "genesis"}

\* every address that sends or receives in the chain, and the reserved ones
AllAddresses(c) ==
    ReservedAddresses
    \cup {Confirmed(c)[i].sender : i \in 1..Len(Confirmed(c))}
    \cup {Confirmed(c)[i].recipient : i \in 1..Len(Confirmed(c))}

\* the sum of get_balance over a set of addresses
RECURSIVE TotalBalance(_, _)
TotalBalance(c, as) ==
    IF as = {} THEN 0
    ELSE LET a == CHOOSE x \in as : TRUE
         IN get_balance(c, a) + TotalBalance(c, as \ {a})

UserTotal(c) == TotalBalance(c, AllAddresses(c) \ ReservedAddresses)

\* the sum of the amounts the senders in from pay to the recipients in to
RECURSIVE AmountOf(_, _, _)
AmountOf(txs, from, to) ==
    IF txs = <<>> THEN 0
    ELSE AmountOf(SubSeq(txs, 1, Len(txs) - 1), from, to)
         + (IF txs[Len(txs)].sender \in from /\ txs[Len(txs)].recipient \in to
            THEN txs[Len(txs)].amount ELSE 0)

BlockAddresses(b) ==
    ReservedAddresses
    \cup {b.transactions[i].sender : i \in 1..Len(b.transactions)}
    \cup {b.transactions[i].recipient : i \in 1..Len(b.transactions)}

IssuedBySystem(b) == AmountOf(b.transactions, {"system"}, BlockAddresses(b))

IssuedByReserved(b) ==
    AmountOf(b.transactions, ReservedAddresses, BlockAddresses(b) \ ReservedAddresses)

PaidToReserved(b) ==
    AmountOf(b.transactions, BlockAddresses(b) \ ReservedAddresses, ReservedAddresses)

\* a mining operation has appended a block in this step
MinedStep == ret' # ret /\ ret'.op = "mine_block_background"

C38_PoolIdsAreDerived ==
    \A i \in 1..Len(pending_transactions) :
        /\ Has(pending_transactions[i], "transaction_id")
        /\ pending_transactions[i].transaction_id
              = calculate_transaction_id(pending_transactions[i])


\* thread t ends its background mining operation in this step
MiningEnds(t) == threads[t].pc \in {"appended", "raised"} /\ threads'[t].pc = "idle"

\* no background mining operation has set the flag and not yet ended
NoneMining == \A t \in 1..MaxThreads : threads[t].pc \in {"idle", "spawned"}

\* C39: a step that ends a background mining operation, after the append or
\* after an exception, leaves is_mining False and mining_address None, and
\* whenever no operation is between setting the flag and its end the flag
\* is clear, so that POST /mine is not answered with 409.
C39_MiningFlagReleased ==
    [][/\ \A t \in 1..MaxThreads :
             MiningEnds(t) => is_mining' = FALSE /\ mining_address' = None
       /\ NoneMining' => is_mining' = FALSE /\ mining_address' = None]_vars

\* an operation whose save failed has ended, the flag is clear and the
\* block it appended is in the chain
C39_Witness ==
    /\ ret.op = "_mine_block_background"
    /\ ret.out = "error"
    /\ Len(chain) > 1
    /\ NoneMining
    /\ ~is_mining
    /\ mining_address = None


\* id is in the peer set and not connected
Disconnected(id) == id \in DOMAIN p2p.peers /\ ~p2p.peers[id].is_connected

\* C40: with the maintenance passes taken again and again and time passing,
\* a peer that is in the peer set and not connected is eventually connected
\* again or removed from the peer set, whatever PING and PONG messages
\* arrive.
C40_NoPeerDisconnectedForever ==
    \A id \in PeerIds : Disconnected(id) ~> ~Disconnected(id)

====
